---- MODULE Spec2Model ----
(***************************************************************************)
(* The limit order book of src/market_maker: the two side books (a heapq   *)
(* of prices plus a dict price -> deque of orders), the matching loop of   *)
(* OrderBook and the clearing house's list of matched trades.              *)
(*                                                                         *)
(* Prices are integers (cents).  Python's None is the value None below.    *)
(* A Python call that raises is modelled by a record whose field exc names *)
(* the exception; the state it leaves behind is the state at the raise.    *)
(***************************************************************************)
EXTENDS Integers, Sequences, FiniteSets, TLC

\* ------------------------------------------------------------------ bounds
MaxOrders == 3
MaxPrice == 2
MaxQty == 2

\* ------------------------------------------------------------- value space
\* Python's None as the value of Order.price; no price of the model and no
\* negated price is equal to it.
None == -1000

\* What peek_top_bid / peek_bottom_ask return on an empty side.
NoOrder == [none |-> TRUE]

NoExc == "none"

\* Two accounts send orders in turn; the book copies account ids into the fills
\* and never branches on them.
AccountIds == {11, 98}
Sender(n) == IF n % 2 = 0 THEN 11 ELSE 98
OrderSide == {"BUY", "SELL"}
OrderType == {"LIMIT", "MARKET"}
Prices == 1..MaxPrice
Quantities == 0..MaxQty

Order == [account_id : AccountIds, side : OrderSide, quantity : Quantities,
          order_type : OrderType, price : Prices \cup {None}]

\* Faulty variant of ClearingOrder: the two account fields are exchanged.
ClearingOrderSwapped(buyer, seller, p, q) ==
    [buyside_account_id |-> seller, sellside_account_id |-> buyer,
     price |-> p, quantity |-> q]

ClearingOrder(buyer, seller, p, q) ==
    [buyside_account_id |-> buyer, sellside_account_id |-> seller,
     price |-> p, quantity |-> q]

\* ------------------------------------------------------------------ heapq
\* a < b on prices: Python raises TypeError when either side is None.
CmpRaises(a, b) == a = None \/ b = None

Swap(heap, i, j) == [heap EXCEPT ![i] = heap[j], ![j] = heap[i]]

\* heapq._siftdown (in place): heap positions are 1-based here, so the parent
\* of pos is pos \div 2.
RECURSIVE siftdown(_, _, _)
siftdown(heap, startpos, pos) ==
    IF pos <= startpos THEN [exc |-> NoExc, heap |-> heap]
    ELSE LET parentpos == pos \div 2 IN
         IF CmpRaises(heap[pos], heap[parentpos])
         THEN [exc |-> "TypeError", heap |-> heap]
         ELSE IF heap[pos] < heap[parentpos]
              THEN siftdown(Swap(heap, pos, parentpos), startpos, parentpos)
              ELSE [exc |-> NoExc, heap |-> heap]

\* heapq._siftup (in place): bubble the smaller child up until a leaf, then
\* sift the item down from there.
RECURSIVE siftup_from(_, _, _)
siftup_from(heap, startpos, pos) ==
    IF pos > Len(heap) \div 2 THEN siftdown(heap, startpos, pos)
    ELSE LET left == 2 * pos
             right == 2 * pos + 1
         IN IF right <= Len(heap) /\ CmpRaises(heap[left], heap[right])
            THEN [exc |-> "TypeError", heap |-> heap]
            ELSE LET childpos == IF right <= Len(heap) /\ ~(heap[left] < heap[right])
                                 THEN right ELSE left
                 IN siftup_from(Swap(heap, pos, childpos), startpos, childpos)

siftup(heap, pos) == siftup_from(heap, pos, pos)

\* Faulty variant of heappush: the item is appended and never sifted.
heappush_nosift(heap, item) == [exc |-> NoExc, heap |-> Append(heap, item)]

heappush(heap, item) == siftdown(Append(heap, item), 1, Len(heap) + 1)

heappop(heap) ==
    IF Len(heap) = 0 THEN [exc |-> "IndexError", heap |-> heap]
    ELSE LET lastelt == heap[Len(heap)]
             rest == SubSeq(heap, 1, Len(heap) - 1)
         IN IF Len(rest) = 0 THEN [exc |-> NoExc, heap |-> rest]
            ELSE siftup([rest EXCEPT ![1] = lastelt], 1)

\* ------------------------------------------------------------- dict helpers
DictSet(d, k, v) == [x \in (DOMAIN d) \cup {k} |-> IF x = k THEN v ELSE d[x]]
DictDel(d, k) == [x \in (DOMAIN d) \ {k} |-> d[x]]

EmptyHeap == [price_heap |-> <<>>, order_dict |-> <<>>]

\* --------------------------------------------------------------- OrderQueue
\* deque[0]; IndexError on an empty deque.
peek_top_order(order_queue) ==
    IF Len(order_queue) = 0 THEN [exc |-> "IndexError", val |-> NoOrder]
    ELSE [exc |-> NoExc, val |-> Head(order_queue)]

\* ------------------------------------------------------------------ AskHeap
\* Faulty variant of add_ask: a new price is put at the root of price_heap.
add_ask_root(h, o) ==
    LET order_price == o.price IN
    IF order_price \notin DOMAIN h.order_dict
    THEN [exc |-> NoExc,
          heap |-> [price_heap |-> <<order_price>> \o h.price_heap,
                    order_dict |-> DictSet(h.order_dict, order_price, <<o>>)]]
    ELSE [exc |-> NoExc,
          heap |-> [h EXCEPT !.order_dict[order_price] = Append(@, o)]]

add_ask(h, o) ==
    LET order_price == o.price IN
    IF order_price \notin DOMAIN h.order_dict
    THEN LET pushed == heappush(h.price_heap, order_price) IN
         IF pushed.exc # NoExc
         THEN [exc |-> pushed.exc,
               heap |-> [h EXCEPT !.price_heap = pushed.heap]]
         ELSE [exc |-> NoExc,
               heap |-> [price_heap |-> pushed.heap,
                         order_dict |-> DictSet(h.order_dict, order_price, <<o>>)]]
    ELSE [exc |-> NoExc,
          heap |-> [h EXCEPT !.order_dict[order_price] = Append(@, o)]]

peek_bottom_ask(h) ==
    IF Len(h.price_heap) = 0 THEN [exc |-> NoExc, val |-> NoOrder]
    ELSE LET order_price == h.price_heap[1] IN
         IF order_price \notin DOMAIN h.order_dict
         THEN [exc |-> "KeyError", val |-> NoOrder]
         ELSE peek_top_order(h.order_dict[order_price])

pop_bottom_ask(h) ==
    IF Len(h.price_heap) = 0 THEN [exc |-> NoExc, heap |-> h]
    ELSE LET order_price == h.price_heap[1] IN
         IF order_price \notin DOMAIN h.order_dict
         THEN [exc |-> "KeyError", heap |-> h]
         ELSE IF Len(h.order_dict[order_price]) = 0
         THEN [exc |-> "IndexError", heap |-> h]
         ELSE LET queue == Tail(h.order_dict[order_price]) IN
              IF Len(queue) = 0
              THEN LET popped == heappop(h.price_heap) IN
                   [exc |-> popped.exc,
                    heap |-> [price_heap |-> popped.heap,
                              order_dict |-> DictDel(h.order_dict, order_price)]]
              ELSE [exc |-> NoExc,
                    heap |-> [h EXCEPT !.order_dict[order_price] = queue]]

\* ------------------------------------------------------------------ BidHeap
\* Faulty variant of add_bid: the order goes to the front of its price level.
add_bid_front(h, o) ==
    LET order_price == o.price IN
    IF order_price \notin DOMAIN h.order_dict
    THEN IF order_price = None THEN [exc |-> "TypeError", heap |-> h]
         ELSE LET pushed == heappush(h.price_heap, 0 - order_price) IN
              IF pushed.exc # NoExc
              THEN [exc |-> pushed.exc,
                    heap |-> [h EXCEPT !.price_heap = pushed.heap]]
              ELSE [exc |-> NoExc,
                    heap |-> [price_heap |-> pushed.heap,
                              order_dict |-> DictSet(h.order_dict, order_price, <<o>>)]]
    ELSE [exc |-> NoExc,
          heap |-> [h EXCEPT !.order_dict[order_price] = <<o>> \o @]]

\* The bid heap holds negated prices; -None raises TypeError before the push.
add_bid(h, o) ==
    LET order_price == o.price IN
    IF order_price \notin DOMAIN h.order_dict
    THEN IF order_price = None THEN [exc |-> "TypeError", heap |-> h]
         ELSE LET pushed == heappush(h.price_heap, 0 - order_price) IN
              IF pushed.exc # NoExc
              THEN [exc |-> pushed.exc,
                    heap |-> [h EXCEPT !.price_heap = pushed.heap]]
              ELSE [exc |-> NoExc,
                    heap |-> [price_heap |-> pushed.heap,
                              order_dict |-> DictSet(h.order_dict, order_price, <<o>>)]]
    ELSE [exc |-> NoExc,
          heap |-> [h EXCEPT !.order_dict[order_price] = Append(@, o)]]

peek_top_bid(h) ==
    IF Len(h.price_heap) = 0 THEN [exc |-> NoExc, val |-> NoOrder]
    ELSE LET order_price == 0 - h.price_heap[1] IN
         IF order_price \notin DOMAIN h.order_dict
         THEN [exc |-> "KeyError", val |-> NoOrder]
         ELSE peek_top_order(h.order_dict[order_price])

pop_top_bid(h) ==
    IF Len(h.price_heap) = 0 THEN [exc |-> NoExc, heap |-> h]
    ELSE LET order_price == 0 - h.price_heap[1] IN
         IF order_price \notin DOMAIN h.order_dict
         THEN [exc |-> "KeyError", heap |-> h]
         ELSE IF Len(h.order_dict[order_price]) = 0
         THEN [exc |-> "IndexError", heap |-> h]
         ELSE LET queue == Tail(h.order_dict[order_price]) IN
              IF Len(queue) = 0
              THEN LET popped == heappop(h.price_heap) IN
                   [exc |-> popped.exc,
                    heap |-> [price_heap |-> popped.heap,
                              order_dict |-> DictDel(h.order_dict, order_price)]]
              ELSE [exc |-> NoExc,
                    heap |-> [h EXCEPT !.order_dict[order_price] = queue]]

\* Faulty variant of reduce_head: the head order keeps its quantity.
reduce_head_keep(h, price, qty) == h

\* The in-place partial fill of the head order of the best level:
\* order_dict[price].order_queue[0].quantity -= qty
reduce_head(h, price, qty) ==
    [h EXCEPT !.order_dict[price][1].quantity = @ - qty]

\* ---------------------------------------------------------------- OrderBook
\* Faulty variant of crossed_spread: no order is found to cross.
crossed_spread_never(o, bh, ah) == [exc |-> NoExc, val |-> FALSE]

\* crossed_spread: val is the boolean returned.
crossed_spread(o, bh, ah) ==
    IF o.side = "BUY"
    THEN LET bottom_ask == peek_bottom_ask(ah) IN
         IF bottom_ask.exc # NoExc THEN [exc |-> bottom_ask.exc, val |-> FALSE]
         ELSE IF bottom_ask.val = NoOrder THEN [exc |-> NoExc, val |-> FALSE]
         ELSE IF CmpRaises(o.price, bottom_ask.val.price)
         THEN [exc |-> "TypeError", val |-> FALSE]
         ELSE [exc |-> NoExc, val |-> o.price > bottom_ask.val.price]
    ELSE LET top_bid == peek_top_bid(bh) IN
         IF top_bid.exc # NoExc THEN [exc |-> top_bid.exc, val |-> FALSE]
         ELSE IF top_bid.val = NoOrder THEN [exc |-> NoExc, val |-> FALSE]
         ELSE IF CmpRaises(o.price, top_bid.val.price)
         THEN [exc |-> "TypeError", val |-> FALSE]
         ELSE [exc |-> NoExc, val |-> o.price < top_bid.val.price]

\* Reference prices are in units of 1/10000, a price p (in cents) being 100 * p.
\* round(x, 3): to the nearest multiple of 10 of these units (the midpoint of
\* two prices in cents is a multiple of 50, so no tie arises).
round3(x) == ((x + 5) \div 10) * 10

\* OrderBook.get_reference_price; val is None when the price returned is None.
get_reference_price(bh, ah) ==
    LET top_bid == peek_top_bid(bh)
        bottom_ask == peek_bottom_ask(ah)
    IN IF top_bid.exc # NoExc THEN [exc |-> top_bid.exc, val |-> None]
       ELSE IF top_bid.val = NoOrder
       THEN IF bottom_ask.exc # NoExc THEN [exc |-> bottom_ask.exc, val |-> None]
            ELSE IF bottom_ask.val = NoOrder
            THEN [exc |-> "AttributeError", val |-> None]
            ELSE IF bottom_ask.val.price = None THEN [exc |-> NoExc, val |-> None]
            ELSE [exc |-> NoExc, val |-> 100 * bottom_ask.val.price]
       ELSE IF bottom_ask.exc # NoExc THEN [exc |-> bottom_ask.exc, val |-> None]
       ELSE IF bottom_ask.val = NoOrder
       THEN [exc |-> NoExc, val |-> 100 * top_bid.val.price]
       ELSE IF bottom_ask.val.price = None THEN [exc |-> "TypeError", val |-> None]
       ELSE [exc |-> NoExc,
             val |-> (100 * top_bid.val.price + 100 * bottom_ask.val.price) \div 2]

\* Database.get_reference_price: the same, the midpoint rounded to 3 decimals.
Database_get_reference_price(bh, ah) ==
    LET r == get_reference_price(bh, ah) IN
    IF r.exc = NoExc /\ peek_top_bid(bh).val # NoOrder
                     /\ peek_bottom_ask(ah).val # NoOrder
    THEN [r EXCEPT !.val = round3(r.val)]
    ELSE r

\* What one step of a handler leaves behind: the exception raised (if any), the
\* two side books, the clearing house's list, the incoming order, and where
\* control goes next ("return", "loop", or the handler that is called).
Step(exc, bh, ah, co, o, next) ==
    [exc |-> exc, bid_heap |-> bh, ask_heap |-> ah, clearing_orders |-> co,
     order |-> o, next |-> next]

\* ClearingHouse.add_clearing_order
add_clearing_order(co, clearing_order) == Append(co, clearing_order)

\* The loop of ClearingHouse.clear_orders from position i on: a trade whose two
\* accounts are equal is skipped, every other trade is printed (its price is
\* formatted with :.2f, a TypeError on None).
RECURSIVE clear_loop(_, _, _)
clear_loop(co, i, printed) ==
    IF i > Len(co) THEN [exc |-> NoExc, printed |-> printed]
    ELSE IF co[i].buyside_account_id = co[i].sellside_account_id
    THEN clear_loop(co, i + 1, printed)
    ELSE IF co[i].price = None THEN [exc |-> "TypeError", printed |-> printed]
    ELSE clear_loop(co, i + 1, Append(printed, co[i]))

\* Faulty variant of clear_orders: self-trades are printed like the others.
clear_orders_noskip(co) ==
    [exc |-> NoExc, printed |-> co, clearing_orders |-> <<>>]

\* ClearingHouse.clear_orders: what it printed and the list it leaves.
clear_orders(co) ==
    LET looped == clear_loop(co, 1, <<>>) IN
    [exc |-> looped.exc, printed |-> looped.printed,
     clearing_orders |-> IF looped.exc = NoExc THEN <<>> ELSE co]

\* handle_limit_order
handle_limit_order(o, bh, ah, co) ==
    LET crossed == crossed_spread(o, bh, ah) IN
    IF o.side = "BUY"
    THEN IF crossed.exc # NoExc THEN Step(crossed.exc, bh, ah, co, o, "return")
         ELSE IF ~crossed.val
         THEN LET added == add_bid(bh, o) IN
              Step(added.exc, added.heap, ah, co, o, "return")
         ELSE Step(NoExc, bh, ah, co, o, "handle_market_order")
    ELSE IF o.side = "SELL"
    THEN IF crossed.exc # NoExc THEN Step(crossed.exc, bh, ah, co, o, "return")
         ELSE IF ~crossed.val
         THEN LET added == add_ask(ah, o) IN
              Step(added.exc, bh, added.heap, co, o, "return")
         ELSE Step(NoExc, bh, ah, co, o, "handle_market_order")
    ELSE Step("ValueError", bh, ah, co, o, "return")

\* The protective-price tests of handle_market_order: a priced order stops
\* matching when its price is outside the best counter order's price.
\* Faulty variant of stops_sell: the protective price never stops the matching.
stops_sell_never(o, top_bid) == FALSE

stops_sell(o, top_bid) == o.price > top_bid.price
stops_buy(o, bottom_ask) == o.price < bottom_ask.price

\* One pass through the while loop of handle_market_order, SELL branch.
market_sell(o, bh, ah, co) ==
    IF ~(o.quantity > 0) THEN Step(NoExc, bh, ah, co, o, "return")
    ELSE
    LET peeked == peek_top_bid(bh)
        top_bid == peeked.val
    IN
    IF peeked.exc # NoExc THEN Step(peeked.exc, bh, ah, co, o, "return")
    ELSE IF o.price # None /\ top_bid = NoOrder
    THEN Step("AttributeError", bh, ah, co, o, "return")
    ELSE IF o.price # None /\ CmpRaises(o.price, top_bid.price)
    THEN Step("TypeError", bh, ah, co, o, "return")
    ELSE IF o.price # None /\ stops_sell(o, top_bid)
    THEN Step(NoExc, bh, ah, co, o, "handle_limit_order")
    ELSE IF top_bid = NoOrder
    THEN Step("ValueError", bh, ah, co, o, "return")
    ELSE IF top_bid.price = None   \* f"{top_bid.price:.2f}"
    THEN Step("TypeError", bh, ah, co, o, "return")
    ELSE IF top_bid.quantity = o.quantity
    THEN LET cleared == add_clearing_order(co,
                 ClearingOrder(top_bid.account_id, o.account_id, top_bid.price, o.quantity))
             popped == pop_top_bid(bh)
         IN IF popped.exc # NoExc
            THEN Step(popped.exc, popped.heap, ah, cleared, o, "return")
            ELSE Step(NoExc, popped.heap, ah, cleared, [o EXCEPT !.quantity = 0], "loop")
    ELSE IF top_bid.quantity > o.quantity
    THEN LET cleared == add_clearing_order(co,
                 ClearingOrder(top_bid.account_id, o.account_id, top_bid.price, o.quantity))
         IN Step(NoExc, reduce_head(bh, top_bid.price, o.quantity), ah, cleared,
                 [o EXCEPT !.quantity = 0], "loop")
    ELSE LET cleared == add_clearing_order(co,
                 ClearingOrder(top_bid.account_id, o.account_id, top_bid.price, top_bid.quantity))
             reduced == [o EXCEPT !.quantity = @ - top_bid.quantity]
             popped == pop_top_bid(bh)
         IN Step(popped.exc, popped.heap, ah, cleared, reduced,
                 IF popped.exc # NoExc THEN "return" ELSE "loop")

\* One pass through the while loop of handle_market_order, BUY branch.
market_buy(o, bh, ah, co) ==
    IF ~(o.quantity > 0) THEN Step(NoExc, bh, ah, co, o, "return")
    ELSE
    LET peeked == peek_bottom_ask(ah)
        bottom_ask == peeked.val
    IN
    IF peeked.exc # NoExc THEN Step(peeked.exc, bh, ah, co, o, "return")
    ELSE IF o.price # None /\ bottom_ask = NoOrder
    THEN Step("AttributeError", bh, ah, co, o, "return")
    ELSE IF o.price # None /\ CmpRaises(o.price, bottom_ask.price)
    THEN Step("TypeError", bh, ah, co, o, "return")
    ELSE IF o.price # None /\ stops_buy(o, bottom_ask)
    THEN Step(NoExc, bh, ah, co, o, "handle_limit_order")
    ELSE IF bottom_ask = NoOrder
    THEN Step("ValueError", bh, ah, co, o, "return")
    ELSE IF bottom_ask.price = None   \* f"{bottom_ask.price:.2f}"
    THEN Step("TypeError", bh, ah, co, o, "return")
    ELSE IF bottom_ask.quantity = o.quantity
    THEN LET cleared == add_clearing_order(co,
                 ClearingOrder(o.account_id, bottom_ask.account_id, bottom_ask.price, o.quantity))
             popped == pop_bottom_ask(ah)
         IN IF popped.exc # NoExc
            THEN Step(popped.exc, bh, popped.heap, cleared, o, "return")
            ELSE Step(NoExc, bh, popped.heap, cleared, [o EXCEPT !.quantity = 0], "loop")
    ELSE IF bottom_ask.quantity > o.quantity
    THEN LET cleared == add_clearing_order(co,
                 ClearingOrder(o.account_id, bottom_ask.account_id, bottom_ask.price, o.quantity))
         IN Step(NoExc, bh, reduce_head(ah, bottom_ask.price, o.quantity), cleared,
                 [o EXCEPT !.quantity = 0], "loop")
    ELSE LET cleared == add_clearing_order(co,
                 ClearingOrder(o.account_id, bottom_ask.account_id, bottom_ask.price, bottom_ask.quantity))
             reduced == [o EXCEPT !.quantity = @ - bottom_ask.quantity]
             popped == pop_bottom_ask(ah)
         IN Step(popped.exc, bh, popped.heap, cleared, reduced,
                 IF popped.exc # NoExc THEN "return" ELSE "loop")

handle_market_order(o, bh, ah, co) ==
    IF o.side = "SELL" THEN market_sell(o, bh, ah, co)
    ELSE IF o.side = "BUY" THEN market_buy(o, bh, ah, co)
    ELSE Step(NoExc, bh, ah, co, o, "return")

\* ------------------------------------------------------------------- state
VARIABLES
    bid_heap,          \* BidHeap: price_heap (negated prices) and order_dict
    ask_heap,          \* AskHeap: price_heap and order_dict
    clearing_orders,   \* ClearingHouse.clearing_orders
    stack,             \* the handlers of the running send_order, outermost first
    order,             \* the Order being handled (its quantity is the residual)
    outcome,           \* how the last send_order ended: "ok" or the exception
    n_sent,            \* number of send_order calls so far
    submitted,         \* the Order as it was passed to the last send_order
    pre,               \* the side books and clearing list when it was passed
    last_trade,        \* Database.last_trade: <<price, volume>>
    cleanup,           \* main's cleanup: whether it ran, the list clear_orders
                       \* was given, what it printed and how it ended
    market_snapshot_queue,  \* Database.market_snapshot_queue, oldest first
    router,            \* the OrderRouter thread: its _running flag, the
                       \* exception that ended run, the send_order calls that
                       \* returned, the messages it did not pass to send_order
                       \* and the last of them
    data_router,       \* the DataRouter thread: its _running flag, where it
                       \* is in run, the snapshots it sent, and the queue as
                       \* stop() found it
    now,               \* the clock read by datetime.now()
    agents,            \* the DumbTradingAgent threads: each one's _running
                       \* flag, where it is in run, whether its sockets are
                       \* closed
    orchestrator,      \* AgentOrchestrator.stop: where it is, the agent it is
                       \* stopping, whether the agents' context is terminated
    main,              \* main.py: where the main task is, its tasks, and
                       \* whether the socket and the context are disposed of
    codec,             \* an Order, the payload model_dump made of it and the
                       \* Order model_validate_json made of the payload
    pipes,             \* the ORDER messages each agent's PUSH socket has sent
                       \* and the router's PULL socket has not yet received
    sent,              \* the orders each agent has sent, oldest first
    received           \* the orders the router has received, oldest first

\* No message (the router has received none that it kept from send_order).
NoMessage == [received |-> FALSE]

\* The agents started by the orchestrator, and the agent tasks of main.
NumAgents == 2
Agents == 1..NumAgents

\* OrderRouter.__init__
NewRouter ==
    [running |-> TRUE, exc |-> NoExc, accepted |-> 0, others |-> 0,
     message |-> NoMessage, stop |-> "idle", closed |-> FALSE,
     exited |-> FALSE, stops |-> 0, stop_exc |-> NoExc, first |-> <<>>]

\* DataRouter.__init__
NewDataRouter ==
    [running |-> TRUE, pc |-> "while", sent |-> <<>>, stopped |-> FALSE,
     pending_at_stop |-> <<>>, stop |-> "idle", stops |-> 0, first |-> <<>>]

\* The agents as _setup_dumb_agents started them, AgentOrchestrator.stop not
\* yet called, and main waiting with its tasks running.
InitShutdown ==
    /\ agents = [a \in Agents |->
                    [running |-> TRUE, pc |-> "while", closed |-> FALSE]]
    /\ orchestrator = [pc |-> "idle", i |-> 1, terminated |-> FALSE,
                       stops |-> 0, exc |-> NoExc, first |-> <<>>]
    /\ main = [pc |-> "wait", market_maker_task |-> "running",
               agent_tasks |-> [a \in Agents |-> "running"],
               socket_closed |-> FALSE, context_terminated |-> FALSE]


\* The state outside the order book; the order book's handlers leave it alone.
shutvars == <<agents, orchestrator, main>>

\* The codec under test and the agents' connections to the router.
wirevars == <<codec, pipes, sent, received>>

envvars == <<last_trade, cleanup, market_snapshot_queue, router, data_router,
             now, wirevars, shutvars>>

vars == <<bid_heap, ask_heap, clearing_orders, stack, order, outcome, n_sent,
          submitted, pre, envvars>>

\* No order has been encoded, and no agent has sent one.
NoCodec == [phase |-> "none"]

InitWire ==
    /\ codec = NoCodec
    /\ pipes = [a \in Agents |-> <<>>]
    /\ sent = [a \in Agents |-> <<>>]
    /\ received = <<>>

\* Database.__init__, and the other objects as constructed.
InitObjects ==
    /\ last_trade = <<None, None>>
    /\ cleanup = [done |-> FALSE, given |-> <<>>, printed |-> <<>>, exc |-> NoExc]
    /\ market_snapshot_queue = <<>>
    /\ router = NewRouter
    /\ data_router = NewDataRouter
    /\ now = 0
    /\ InitShutdown

InitEnv == InitObjects /\ InitWire

Book == [bid_heap |-> bid_heap, ask_heap |-> ask_heap,
         clearing_orders |-> clearing_orders]

NoSubmit == [account_id |-> 0, side |-> "", quantity |-> 0, order_type |-> "",
             price |-> None]

Init ==
    /\ bid_heap = EmptyHeap
    /\ ask_heap = EmptyHeap
    /\ clearing_orders = <<>>
    /\ stack = <<>>
    /\ order = NoSubmit
    /\ outcome = "none"
    /\ n_sent = 0
    /\ submitted = NoSubmit
    /\ pre = [bid_heap |-> EmptyHeap, ask_heap |-> EmptyHeap, clearing_orders |-> <<>>]
    /\ InitEnv

Idle == stack = <<>>
Top == stack[Len(stack)]

\* The effect of a handler's step on the state, stk being the running
\* handlers: an exception or a return unwinds every frame (each call is the
\* caller's last statement), a call pushes the callee.
Effect(stk, s) ==
    /\ bid_heap' = s.bid_heap
    /\ ask_heap' = s.ask_heap
    /\ clearing_orders' = s.clearing_orders
    /\ order' = s.order
    /\ stack' = IF s.exc # NoExc \/ s.next = "return" THEN <<>>
                ELSE IF s.next = "loop" THEN stk
                ELSE Append(stk, s.next)
    /\ outcome' = IF s.exc # NoExc THEN s.exc
                  ELSE IF s.next = "return" THEN "ok"
                  ELSE "running"

\* The same, by a caller that touches nothing but the order book.
Apply(stk, s) == Effect(stk, s) /\ UNCHANGED envvars

\* A handler's step on order o in the current state.
Handle(handler, o) ==
    IF handler = "handle_limit_order"
    THEN handle_limit_order(o, bid_heap, ask_heap, clearing_orders)
    ELSE handle_market_order(o, bid_heap, ask_heap, clearing_orders)

\* send_order: dispatch on the order type and enter the handler.
call_send_order(o) ==
    /\ Idle
    /\ ~cleanup.done
    /\ n_sent < MaxOrders
    /\ n_sent' = n_sent + 1
    /\ submitted' = o
    /\ pre' = Book
    /\ LET handler == IF o.order_type = "LIMIT" THEN "handle_limit_order"
                      ELSE "handle_market_order"
       IN Effect(<<handler>>, Handle(handler, o))

\* send_order called by a caller that touches nothing but the order book.
send_order(o) == call_send_order(o) /\ UNCHANGED envvars

\* handle_limit_order entered from handle_market_order (the protective price
\* stopped the matching).
HandleLimitOrder ==
    /\ ~Idle /\ Top = "handle_limit_order"
    /\ Apply(stack, Handle("handle_limit_order", order))
    /\ UNCHANGED <<n_sent, submitted, pre>>

\* The next pass through the loop of handle_market_order, or its first pass
\* when handle_limit_order called it.
HandleMarketOrder ==
    /\ ~Idle /\ Top = "handle_market_order"
    /\ Apply(stack, Handle("handle_market_order", order))
    /\ UNCHANGED <<n_sent, submitted, pre>>

Next ==
    \/ \E o \in Order : o.account_id = Sender(n_sent) /\ send_order(o)
    \/ HandleLimitOrder
    \/ HandleMarketOrder

Spec == Init /\ [][Next]_vars

\* ------------------------------------------- a book with a priceless SELL
\* The state send_order leaves when, on a fresh book, a SELL LIMIT at price p
\* has rested and a SELL LIMIT without a price is submitted next: the second
\* call runs add_ask, whose heappush appends None to price_heap and raises.
PricelessSell(n, q) ==
    [account_id |-> Sender(n), side |-> "SELL", quantity |-> q,
     order_type |-> "LIMIT", price |-> None]

AfterPricelessSell(p, q1, q2) ==
    LET first == [PricelessSell(0, q1) EXCEPT !.price = p]
        rested == handle_limit_order(first, EmptyHeap, EmptyHeap, <<>>)
    IN [rested |-> rested,
        raised |-> handle_limit_order(PricelessSell(1, q2), rested.bid_heap,
                                      rested.ask_heap, rested.clearing_orders)]

\* n_sent counts the send_order calls that follow these two.
InitPriceless ==
    \E p \in Prices, q1 \in 1..MaxQty, q2 \in 1..MaxQty :
        LET s == AfterPricelessSell(p, q1, q2) IN
        /\ bid_heap = s.raised.bid_heap
        /\ ask_heap = s.raised.ask_heap
        /\ clearing_orders = s.raised.clearing_orders
        /\ stack = <<>>
        /\ order = s.raised.order
        /\ outcome = s.raised.exc
        /\ n_sent = 0
        /\ submitted = PricelessSell(1, q2)
        /\ pre = [bid_heap |-> s.rested.bid_heap, ask_heap |-> s.rested.ask_heap,
                  clearing_orders |-> s.rested.clearing_orders]
        /\ InitEnv

SpecPriceless == InitPriceless /\ [][Next]_vars

\* ------------------------------------------------- priced orders only
\* send_order called with orders that carry a price, from the empty book.
NextPriced ==
    \/ \E o \in Order :
          o.account_id = Sender(n_sent) /\ o.price # None /\ send_order(o)
    \/ HandleLimitOrder
    \/ HandleMarketOrder

SpecPriced == Init /\ [][NextPriced]_vars

\* --------------------------------------------- the ledger of submissions
\* send_order called with orders of positive quantity for as long as every
\* call so far has returned without an exception; received keeps the orders
\* passed to send_order, as they were passed.
LedgerSendOrder(o) ==
    /\ outcome \in {"none", "ok"}
    /\ o.quantity > 0
    /\ call_send_order(o)
    /\ received' = Append(received, o)
    /\ UNCHANGED <<last_trade, cleanup, market_snapshot_queue, router,
                   data_router, now, codec, pipes, sent, shutvars>>

NextLedger ==
    \/ \E o \in Order : o.account_id = Sender(n_sent) /\ LedgerSendOrder(o)
    \/ HandleLimitOrder
    \/ HandleMarketOrder

SpecLedger == Init /\ [][NextLedger]_vars

\* ------------------------------------------------------- main's cleanup
\* The finally block of main: once no order is being handled, clear_orders
\* is called on the clearing house and the process ends.  The call is then
\* the last operation: outcome and pre describe it, and no order was passed.
Cleanup ==
    /\ Idle
    /\ ~cleanup.done
    /\ LET cleared == clear_orders(clearing_orders) IN
       /\ clearing_orders' = cleared.clearing_orders
       /\ cleanup' = [done |-> TRUE, given |-> clearing_orders,
                      printed |-> cleared.printed, exc |-> cleared.exc]
       /\ outcome' = IF cleared.exc # NoExc THEN cleared.exc ELSE "ok"
    /\ submitted' = NoSubmit
    /\ order' = NoSubmit
    /\ pre' = Book
    /\ UNCHANGED <<bid_heap, ask_heap, stack, n_sent, last_trade,
                   market_snapshot_queue, router, data_router, now, wirevars, shutvars>>

NextClearing ==
    \/ \E o \in Order : o.account_id = Sender(n_sent) /\ send_order(o)
    \/ HandleLimitOrder
    \/ HandleMarketOrder
    \/ Cleanup

SpecClearing == Init /\ [][NextClearing]_vars

\* ------------------------------------------------------- the seed book
\* send_order run to its return on a book: the handlers' steps one after the
\* other, from the handler the order type selects (s is the result of the
\* step, r the result of the call).
RECURSIVE run(_, _, _, _, _)
run(handler, o, bh, ah, co) ==
    CHOOSE r \in
        {IF s.exc # NoExc \/ s.next = "return" THEN s
         ELSE run(IF s.next = "loop" THEN handler ELSE s.next,
                  s.order, s.bid_heap, s.ask_heap, s.clearing_orders) :
            s \in {IF handler = "handle_limit_order"
                   THEN handle_limit_order(o, bh, ah, co)
                   ELSE handle_market_order(o, bh, ah, co)}} : TRUE

\* send_order called on each order of a list in turn, from a book; an
\* exception ends the calls, the book being left as it was at the raise.
RECURSIVE send_orders(_, _)
send_orders(orders, book) ==
    IF Len(orders) = 0 THEN book
    ELSE CHOOSE r \in
        {IF s.exc # NoExc
         THEN [bid_heap |-> s.bid_heap, ask_heap |-> s.ask_heap,
               clearing_orders |-> s.clearing_orders]
         ELSE send_orders(Tail(orders),
                          [bid_heap |-> s.bid_heap, ask_heap |-> s.ask_heap,
                           clearing_orders |-> s.clearing_orders]) :
            s \in {run(IF Head(orders).order_type = "LIMIT"
                       THEN "handle_limit_order" ELSE "handle_market_order",
                       Head(orders), book.bid_heap, book.ask_heap,
                       book.clearing_orders)}} : TRUE

\* The account ids populate_for_testing gives its twenty orders: id_counter
\* (1, 2, ...) in order_book.py, mini_uuid() in order_service.py (twenty
\* other ids here).
CounterIds == [i \in 1..20 |-> i]
UuidIds == [i \in 1..20 |-> 100 + i]

\* populate_for_testing: the price lists are the five prices of a side,
\* nearest the centre first, written twice over (the list of five, * 2), so
\* the k-th and the (k+5)-th order of a side have the same price; the asks
\* are sent first, then the bids, each of 100.  Prices are in cents.
populate_for_testing(ids) ==
    LET center_price == 10000
        num_sell_orders == 10
        num_buy_orders == 10
        ask_prices == [k \in 1..num_sell_orders |->
                         center_price + (((k - 1) % (num_sell_orders \div 2)) + 1) * 10]
        bid_prices == [k \in 1..num_buy_orders |->
                         center_price - (((k - 1) % (num_buy_orders \div 2)) + 1) * 10]
        asks == [k \in 1..num_sell_orders |->
                   [account_id |-> ids[k], side |-> "SELL", quantity |-> 100,
                    order_type |-> "LIMIT", price |-> ask_prices[k]]]
        bids == [k \in 1..num_buy_orders |->
                   [account_id |-> ids[num_sell_orders + k], side |-> "BUY",
                    quantity |-> 100, order_type |-> "LIMIT",
                    price |-> bid_prices[k]]]
    IN send_orders(asks \o bids,
                   [bid_heap |-> EmptyHeap, ask_heap |-> EmptyHeap,
                    clearing_orders |-> <<>>])

\* The orders of the four scenarios, and others like them.
SellMarket350 ==
    [account_id |-> 98, side |-> "SELL", quantity |-> 350,
     order_type |-> "MARKET", price |-> None]
BuyMarket150 ==
    [account_id |-> 99, side |-> "BUY", quantity |-> 150,
     order_type |-> "MARKET", price |-> None]
BuyLimit300 ==
    [account_id |-> 99, side |-> "BUY", quantity |-> 300,
     order_type |-> "LIMIT", price |-> 10020]
SellLimit101 ==
    [account_id |-> 98, side |-> "SELL", quantity |-> 100,
     order_type |-> "LIMIT", price |-> 10100]

ScenarioOrders ==
    {SellMarket350, BuyMarket150, BuyLimit300, SellLimit101,
     [SellLimit101 EXCEPT !.price = 10010],
     [BuyLimit300 EXCEPT !.quantity = 100, !.price = 9990]}

\* The book after populate_for_testing, no order sent since.
InitSeed ==
    \E ids \in {CounterIds, UuidIds} :
        LET seed == populate_for_testing(ids) IN
        /\ bid_heap = seed.bid_heap
        /\ ask_heap = seed.ask_heap
        /\ clearing_orders = seed.clearing_orders
        /\ stack = <<>>
        /\ order = NoSubmit
        /\ outcome = "none"
        /\ n_sent = 0
        /\ submitted = NoSubmit
        /\ pre = seed
        /\ InitEnv

NextSeed ==
    \/ \E o \in ScenarioOrders : send_order(o)
    \/ HandleLimitOrder
    \/ HandleMarketOrder

SpecSeed == InitSeed /\ [][NextSeed]_vars

\* ---------------------------------------------------------- the OrderRouter
\* The messages other than well-formed orders the router may receive.
MaxOthers == 2

\* The calls of Database.snapshot, each of which reads the clock.
MaxSnapshots == 3

\* The values datetime.now() takes, and Order.timestamp of an order o: an
\* order written without the field has the default, None.
Datetimes == 0..MaxSnapshots
timestamp(o) == IF "timestamp" \in DOMAIN o THEN o.timestamp ELSE None

\* An Order with its timestamp field written out.
Stamped(o, ts) ==
    [account_id |-> o.account_id, side |-> o.side, quantity |-> o.quantity,
     order_type |-> o.order_type, price |-> o.price, timestamp |-> ts]

\* datetime.isoformat and datetime.fromisoformat.  A datetime t is a number
\* of half seconds; its ISO string is written here as the number whose last
\* decimal digit is the fraction (0 or 5 tenths, written 0 or 1) and whose
\* other digits are the whole seconds.
isoformat(t) == 10 * (t \div 2) + (t % 2)
fromisoformat(x) == 2 * (x \div 10) + (x % 10)

\* enums.py: a member of OrderSide or OrderType is written by its name
\* (BUY, SELL, LIMIT, MARKET); value is the member's .value.
value(member) ==
    CASE member = "BUY" -> "Buy"
      [] member = "SELL" -> "Sell"
      [] member = "LIMIT" -> "Limit"
      [] member = "MARKET" -> "Market"

\* Faulty variant of model_dump: the enums are written by value, not by name.
model_dump_values(o) ==
    [account_id |-> o.account_id, side |-> value(o.side),
     quantity |-> o.quantity, order_type |-> value(o.order_type),
     price |-> o.price,
     timestamp |-> IF timestamp(o) # None THEN isoformat(timestamp(o))
                   ELSE None]

\* Order.model_dump: the dictionary an agent sends as the data of an ORDER
\* message; side.name and order_type.name are the members' names.
model_dump(o) ==
    [account_id |-> o.account_id, side |-> o.side, quantity |-> o.quantity,
     order_type |-> o.order_type, price |-> o.price,
     timestamp |-> IF timestamp(o) # None THEN isoformat(timestamp(o))
                   ELSE None]

\* Message.model_dump of an ORDER message.
OrderMessage(o) == [message_type |-> "ORDER", data |-> model_dump(o)]

\* A dictionary without one of its keys.
Without(d, f) == [k \in DOMAIN d \ {f} |-> d[k]]

\* Order.model_validate_json: the subscripts order_dict[...] and the enum
\* lookups OrderSide[...] and OrderType[...] raise KeyError.
model_validate_json(d) ==
    LET has(f) == f \in DOMAIN d
        raised == [exc |-> "KeyError", order |-> NoSubmit, timestamp |-> None]
    IN
    IF ~has("account_id") THEN raised
    ELSE IF ~has("side") THEN raised
    ELSE IF d.side \notin OrderSide THEN raised
    ELSE IF ~has("quantity") THEN raised
    ELSE IF ~has("order_type") THEN raised
    ELSE IF d.order_type \notin OrderType THEN raised
    ELSE IF ~has("price") THEN raised
    ELSE IF ~has("timestamp") THEN raised
    ELSE [exc |-> NoExc,
          order |-> [account_id |-> d.account_id, side |-> d.side,
                     quantity |-> d.quantity, order_type |-> d.order_type,
                     price |-> d.price],
          timestamp |-> IF d.timestamp # None THEN fromisoformat(d.timestamp)
                        ELSE None]

\* The codec on its own: an Order is encoded, and the payload decoded.
InitCodec ==
    \E o \in Order, ts \in Datetimes \cup {None} :
        /\ bid_heap = EmptyHeap
        /\ ask_heap = EmptyHeap
        /\ clearing_orders = <<>>
        /\ stack = <<>>
        /\ order = NoSubmit
        /\ outcome = "none"
        /\ n_sent = 0
        /\ submitted = NoSubmit
        /\ pre = [bid_heap |-> EmptyHeap, ask_heap |-> EmptyHeap,
                  clearing_orders |-> <<>>]
        /\ InitObjects
        /\ pipes = [a \in Agents |-> <<>>]
        /\ sent = [a \in Agents |-> <<>>]
        /\ received = <<>>
        /\ codec = [phase |-> "order", order |-> Stamped(o, ts)]

notcodec == <<bid_heap, ask_heap, clearing_orders, stack, order, outcome,
              n_sent, submitted, pre, last_trade, cleanup,
              market_snapshot_queue, router, data_router, now, pipes, sent,
              received, shutvars>>

\* order.model_dump()
Encode ==
    /\ codec.phase = "order"
    /\ codec' = [phase |-> "payload", order |-> codec.order,
                 payload |-> model_dump(codec.order)]
    /\ UNCHANGED notcodec

\* Order.model_validate_json(payload)
Decode ==
    /\ codec.phase = "payload"
    /\ codec' = [phase |-> "decoded", order |-> codec.order,
                 payload |-> codec.payload,
                 decoded |-> model_validate_json(codec.payload)]
    /\ UNCHANGED notcodec

NextCodec ==
    \/ Encode
    \/ Decode

SpecCodec == InitCodec /\ [][NextCodec]_vars

\* The orders the sender of the next message may send.
NextOrders == {o \in Order : o.account_id = Sender(n_sent)}

\* ORDER messages whose data Order.model_validate_json does not accept: a
\* field is missing, or the side or the order type is not a member's name.
BadOrderMessages ==
    LET d == model_dump(CHOOSE o \in NextOrders : o.quantity > 0) IN
    {[message_type |-> "ORDER", data |-> Without(d, f)] : f \in DOMAIN d}
    \cup {[message_type |-> "ORDER", data |-> [d EXCEPT !.side = "HOLD"]],
          [message_type |-> "ORDER", data |-> [d EXCEPT !.order_type = "STOP"]]}

\* Messages that are not ORDER messages: without a message_type, or of
\* another type.
NonOrderMessages ==
    {[data |-> [reference_price |-> 1]],
     [message_type |-> "MARKET_DATA", data |-> [reference_price |-> 1]]}

\* message.get("message_type")
get_message_type(m) ==
    IF "message_type" \in DOMAIN m THEN m.message_type ELSE "None"

\* The router thread is at recv_json, inside the loop of run: no exception
\* has left run and every send_order it called has returned to it.
AtRecv ==
    /\ Idle
    /\ router.exc = NoExc
    /\ ~router.exited
    /\ router.running
    /\ router.accepted = n_sent

\* run receives an ORDER message with well-formed data and calls send_order.
RouterOrder(o) ==
    /\ AtRecv
    /\ get_message_type(OrderMessage(o)) = "ORDER"
    /\ model_validate_json(OrderMessage(o).data).exc = NoExc
    /\ send_order(model_validate_json(OrderMessage(o).data).order)

\* send_order has returned to run, which logs the book and loops.
RouterReturn ==
    /\ Idle /\ outcome = "ok"
    /\ router.exc = NoExc
    /\ router.accepted < n_sent
    /\ router' = [router EXCEPT !.accepted = @ + 1]
    /\ UNCHANGED <<bid_heap, ask_heap, clearing_orders, stack, order, outcome,
                   n_sent, submitted, pre, last_trade, cleanup,
                   market_snapshot_queue, data_router, now, wirevars, shutvars>>

\* send_order has raised: nothing in run catches the exception, which ends
\* the thread.
RouterRaise ==
    /\ Idle /\ outcome \notin {"none", "ok"}
    /\ router.exc = NoExc
    /\ router.accepted < n_sent
    /\ router' = [router EXCEPT !.exc = outcome]
    /\ UNCHANGED <<bid_heap, ask_heap, clearing_orders, stack, order, outcome,
                   n_sent, submitted, pre, last_trade, cleanup,
                   market_snapshot_queue, data_router, now, wirevars, shutvars>>

\* run receives a message that it does not pass to send_order: one whose
\* message_type is not "ORDER" is skipped, and an ORDER whose data
\* model_validate_json refuses ends the thread with the KeyError.
RouterOther(m) ==
    /\ AtRecv
    /\ router.others < MaxOthers
    /\ router' = [router EXCEPT
                    !.others = @ + 1,
                    !.message = m,
                    !.exc = IF get_message_type(m) = "ORDER"
                            THEN model_validate_json(m.data).exc
                            ELSE NoExc]
    /\ UNCHANGED <<bid_heap, ask_heap, clearing_orders, stack, order, outcome,
                   n_sent, submitted, pre, last_trade, cleanup,
                   market_snapshot_queue, data_router, now, wirevars, shutvars>>

NextRouter ==
    \/ \E o \in NextOrders : RouterOrder(o)
    \/ HandleLimitOrder
    \/ HandleMarketOrder
    \/ RouterReturn
    \/ RouterRaise
    \/ \E m \in NonOrderMessages \cup BadOrderMessages : RouterOther(m)

SpecRouter == Init /\ [][NextRouter]_vars

\* ------------------------------------------- the agents' PUSH sockets
\* Each agent's order_socket is a PUSH socket connected to the router's PULL
\* socket: the messages an agent sends arrive in the order sent, and
\* recv_json takes the oldest message of any agent that has one waiting.
\* Faulty variant of recv_json: the newest message of the agent is taken.
recv_json_newest(pipe) ==
    [message |-> pipe[Len(pipe)], pipe |-> SubSeq(pipe, 1, Len(pipe) - 1)]

recv_json(pipe) == [message |-> Head(pipe), pipe |-> Tail(pipe)]

\* The agent's id, which send_random_order writes into its orders.
agent_id(a) == a

\* The values an agent may write into the timestamp of an order; the clock
\* of one agent is not the clock of another.
Clocks == {0, 1}

\* The orders agent a may send: LIMIT orders with a price and a positive
\* quantity, as send_random_order makes them, with any timestamp.  The
\* prices are three at least, so that a crossing order can meet a second
\* level outside its price.
AgentOrders(a) ==
    {Stamped([account_id |-> agent_id(a), side |-> sd, quantity |-> q,
              order_type |-> "LIMIT", price |-> p], ts) :
        sd \in OrderSide, q \in 1..MaxQty, p \in 1..(MaxPrice + 1),
        ts \in Clocks}

\* All the orders sent so far.
RECURSIVE SentBy(_)
SentBy(as) ==
    IF as = {} THEN 0
    ELSE LET a == CHOOSE x \in as : TRUE IN Len(sent[a]) + SentBy(as \ {a})

\* BaseTradingAgent.send_order: the order is wrapped into an ORDER message
\* and sent on the agent's PUSH socket.
WireSend(a, o) ==
    /\ agents[a].running /\ ~agents[a].closed
    /\ SentBy(Agents) < MaxOrders
    /\ pipes' = [pipes EXCEPT ![a] = Append(@, OrderMessage(o))]
    /\ sent' = [sent EXCEPT ![a] = Append(@, o)]
    /\ UNCHANGED <<bid_heap, ask_heap, clearing_orders, stack, order, outcome,
                   n_sent, submitted, pre, last_trade, cleanup,
                   market_snapshot_queue, router, data_router, now, codec,
                   received, shutvars>>

\* OrderRouter.run: recv_json returns a message of agent a, an ORDER message
\* whose data is validated into an Order, and send_order is called on it.
WireRecv(a) ==
    /\ AtRecv
    /\ pipes[a] # <<>>
    /\ LET got == recv_json(pipes[a])
           validated == model_validate_json(got.message.data)
           o == Stamped(validated.order, validated.timestamp)
       IN /\ get_message_type(got.message) = "ORDER"
          /\ validated.exc = NoExc
          /\ pipes' = [pipes EXCEPT ![a] = got.pipe]
          /\ received' = Append(received, o)
          /\ call_send_order(o)
    /\ UNCHANGED <<last_trade, cleanup, market_snapshot_queue, router,
                   data_router, now, codec, sent, shutvars>>

NextWire ==
    \/ \E a \in Agents : \E o \in AgentOrders(a) : WireSend(a, o)
    \/ \E a \in Agents : WireRecv(a)
    \/ HandleLimitOrder
    \/ HandleMarketOrder
    \/ RouterReturn
    \/ RouterRaise

SpecWire == Init /\ [][NextWire]_vars

\* ------------------------------------------- the snapshot queue, DataRouter
\* Queue(): maxsize is 0, which queue.Queue takes as "no limit".
maxsize == 0

\* Queue.full
Queue_full(q) == maxsize > 0 /\ Len(q) >= maxsize

\* Queue.put (block=True, no timeout): waits while the queue is full, then
\* appends the item; no item is ever removed by put.
Queue_put_enabled(q) == ~Queue_full(q)
Queue_put(q, item) == Append(q, item)

\* Database.get_snapshot at time t: the arguments are evaluated in the order
\* written, then Snapshot(...) validates them (reference_price and
\* last_trade_price are float, last_trade_volume is int, top_bid and top_ask
\* are Order: None is refused with a ValidationError).
get_snapshot(bh, ah, lt, t) ==
    LET reference_price == Database_get_reference_price(bh, ah)
        top_bid == peek_top_bid(bh)
        top_ask == peek_bottom_ask(ah)
    IN IF reference_price.exc # NoExc
       THEN [exc |-> reference_price.exc, val |-> NoOrder]
       ELSE IF top_bid.exc # NoExc THEN [exc |-> top_bid.exc, val |-> NoOrder]
       ELSE IF top_ask.exc # NoExc THEN [exc |-> top_ask.exc, val |-> NoOrder]
       ELSE IF \/ reference_price.val = None
               \/ lt[1] = None \/ lt[2] = None
               \/ top_bid.val = NoOrder \/ top_ask.val = NoOrder
       THEN [exc |-> "ValidationError", val |-> NoOrder]
       ELSE [exc |-> NoExc,
             val |-> [timestamp |-> t, reference_price |-> reference_price.val,
                      last_trade_price |-> lt[1], last_trade_volume |-> lt[2],
                      top_bid |-> top_bid.val, top_ask |-> top_ask.val]]

\* A Database for the data path: a bid and an ask may rest (each put there by
\* send_order on the fresh book), and last_trade is the initial pair or a
\* pair its owner assigned (nothing in the repository assigns it).
InitData ==
    \E has_bid \in BOOLEAN, has_ask \in BOOLEAN,
       lt \in {<<None, None>>, <<1, 1>>} :
        LET bid == [account_id |-> Sender(0), side |-> "BUY", quantity |-> 1,
                    order_type |-> "LIMIT", price |-> 1]
            ask == [account_id |-> Sender(1), side |-> "SELL", quantity |-> 1,
                    order_type |-> "LIMIT", price |-> MaxPrice]
            s1 == IF has_bid
                  THEN handle_limit_order(bid, EmptyHeap, EmptyHeap, <<>>)
                  ELSE Step(NoExc, EmptyHeap, EmptyHeap, <<>>, NoSubmit, "return")
            s2 == IF has_ask
                  THEN handle_limit_order(ask, s1.bid_heap, s1.ask_heap,
                                          s1.clearing_orders)
                  ELSE s1
        IN /\ bid_heap = s2.bid_heap
           /\ ask_heap = s2.ask_heap
           /\ clearing_orders = s2.clearing_orders
           /\ stack = <<>>
           /\ order = NoSubmit
           /\ outcome = "none"
           /\ n_sent = 0
           /\ submitted = NoSubmit
           /\ pre = [bid_heap |-> EmptyHeap, ask_heap |-> EmptyHeap,
                     clearing_orders |-> <<>>]
           /\ cleanup = [done |-> FALSE, given |-> <<>>, printed |-> <<>>,
                         exc |-> NoExc]
           /\ market_snapshot_queue = <<>>
           /\ router = NewRouter
           /\ data_router = NewDataRouter
           /\ now = 0
           /\ InitShutdown
           /\ InitWire
           /\ last_trade = lt

\* What the data path leaves alone.
bookvars == <<bid_heap, ask_heap, clearing_orders, stack, order, outcome,
              n_sent, submitted, pre, last_trade, cleanup, router, wirevars,
              shutvars>>

\* Database.snapshot: get_snapshot, then put on the queue; an exception of
\* get_snapshot leaves the queue as it is.
Database_snapshot ==
    /\ now < MaxSnapshots
    /\ Queue_put_enabled(market_snapshot_queue)
    /\ now' = now + 1
    /\ LET snapshot == get_snapshot(bid_heap, ask_heap, last_trade, now) IN
       market_snapshot_queue' =
           IF snapshot.exc # NoExc THEN market_snapshot_queue
           ELSE Queue_put(market_snapshot_queue, snapshot.val)
    /\ UNCHANGED <<bookvars, data_router>>

\* DataRouter.run, the loop condition: while self._running.
DataRouterWhile ==
    /\ data_router.pc = "while"
    /\ data_router' = [data_router EXCEPT
                         !.pc = IF data_router.running THEN "get" ELSE "done"]
    /\ UNCHANGED <<bookvars, market_snapshot_queue, now>>

\* Faulty variant of DataRouterGet: the thread also empties the clearing
\* house's list.
DataRouterGetClear ==
    /\ data_router.pc = "get"
    /\ market_snapshot_queue # <<>>
    /\ market_snapshot_queue' = Tail(market_snapshot_queue)
    /\ clearing_orders' = <<>>
    /\ data_router' = [data_router EXCEPT
                         !.pc = "while",
                         !.sent = Append(@, Head(market_snapshot_queue))]
    /\ UNCHANGED <<bid_heap, ask_heap, stack, order, outcome, n_sent,
                   submitted, pre, last_trade, cleanup, router, wirevars,
                   shutvars, now>>

\* queue.get(timeout=0.5) returns the oldest snapshot, which is sent as a
\* DATA_SNAPSHOT message.
DataRouterGet ==
    /\ data_router.pc = "get"
    /\ market_snapshot_queue # <<>>
    /\ market_snapshot_queue' = Tail(market_snapshot_queue)
    /\ data_router' = [data_router EXCEPT
                         !.pc = "while",
                         !.sent = Append(@, Head(market_snapshot_queue))]
    /\ UNCHANGED <<bookvars, now>>

\* queue.get(timeout=0.5) raises Empty: continue.
DataRouterEmpty ==
    /\ data_router.pc = "get"
    /\ market_snapshot_queue = <<>>
    /\ data_router' = [data_router EXCEPT !.pc = "while"]
    /\ UNCHANGED <<bookvars, market_snapshot_queue, now>>

\* DataRouter.stop: clears _running (then sleeps and joins the thread).
DataRouterStop ==
    /\ ~data_router.stopped
    /\ data_router' = [data_router EXCEPT
                         !.running = FALSE,
                         !.stopped = TRUE,
                         !.stop = "join",
                         !.stops = 1,
                         !.pending_at_stop = market_snapshot_queue]
    /\ UNCHANGED <<bookvars, market_snapshot_queue, now>>

NextData ==
    \/ Database_snapshot
    \/ DataRouterWhile
    \/ DataRouterGet
    \/ DataRouterEmpty
    \/ DataRouterStop

SpecData == InitData /\ [][NextData]_vars

\* utils.py, MessageType(str, Enum): a member is written by its name; value
\* is the member's .value.
MessageType_value(member) ==
    CASE member = "ORDER" -> "order"
      [] member = "ORCHESTRATOR_COMMAND" -> "orchestrator_command"
      [] member = "ORCHESTRATOR_RESPONSE" -> "orchestrator_response"
      [] member = "DATA_SNAPSHOT" -> "data_snapshot"

\* Snapshot.model_dump: the timestamp in ISO format, the numbers as they
\* are, and the two orders by Order.model_dump.
Snapshot_model_dump(s) ==
    [timestamp |-> isoformat(s.timestamp),
     reference_price |-> s.reference_price,
     last_trade_price |-> s.last_trade_price,
     last_trade_volume |-> s.last_trade_volume,
     top_bid |-> model_dump(s.top_bid),
     top_ask |-> model_dump(s.top_ask)]

\* Faulty variant of Message_model_dump: the type is written by its value.
Message_model_dump_value(message_type, data) ==
    [message_type |-> MessageType_value(message_type),
     data |-> Snapshot_model_dump(data)]

\* Message.model_dump of a message whose data is a Snapshot: message_type.name
\* and data.model_dump().
Message_model_dump(message_type, data) ==
    [message_type |-> message_type, data |-> Snapshot_model_dump(data)]

\* What DataRouter.run has given to send_json, oldest first: for each
\* snapshot it got from the queue, the dump of the DATA_SNAPSHOT message made
\* of it.
Published ==
    [i \in DOMAIN data_router.sent |->
        Message_model_dump("DATA_SNAPSHOT", data_router.sent[i])]

\* ----------------------------------------------------------------- shutdown
\* What the agents and AgentOrchestrator.stop leave alone.
notagents == <<bid_heap, ask_heap, clearing_orders, stack, order, outcome,
               n_sent, submitted, pre, last_trade, cleanup,
               market_snapshot_queue, router, data_router, now, wirevars, main>>

\* What OrderRouter.stop and the stopping router thread leave alone.
notrouter == <<bid_heap, ask_heap, clearing_orders, stack, order, outcome,
               n_sent, submitted, pre, last_trade, cleanup,
               market_snapshot_queue, data_router, now, wirevars, shutvars>>

\* What the main task's shutdown leaves alone.
notmain == <<bid_heap, ask_heap, clearing_orders, stack, order, outcome,
             n_sent, submitted, pre, last_trade, cleanup,
             market_snapshot_queue, router, data_router, now, wirevars,
             agents, orchestrator>>

\* zmq's Socket.close and Context.term as the stop methods call them: both
\* do nothing on a socket or context that is closed already, and raise
\* nothing.
Socket_close(closed) == [exc |-> NoExc, closed |-> TRUE]
Context_term(terminated) == [exc |-> NoExc, terminated |-> TRUE]

\* Faulty variant of BaseTradingAgent.close: closing a closed socket raises.
close_once(closed) ==
    [exc |-> IF closed THEN "ZMQError" ELSE NoExc, closed |-> TRUE]

\* BaseTradingAgent.close: the agent's four sockets are closed.
close(closed) == Socket_close(closed)

\* DumbTradingAgent.run, the loop condition: while self._running.
AgentWhile(a) ==
    /\ agents[a].pc = "while"
    /\ agents' = [agents EXCEPT
                    ![a].pc = IF agents[a].running THEN "sleep" ELSE "done"]
    /\ UNCHANGED <<notagents, orchestrator>>

\* The agent's sleep of 1 to 3 seconds is over; send_random_order sends an
\* order if _running is still set, and an exception is logged.
AgentSend(a) ==
    /\ agents[a].pc = "sleep"
    /\ agents' = [agents EXCEPT ![a].pc = "while"]
    /\ UNCHANGED <<notagents, orchestrator>>

\* AgentOrchestrator.stop is called: it clears its own flag and turns to the
\* first agent.
OrchestratorStop ==
    /\ orchestrator.pc = "idle"
    /\ orchestrator' = [orchestrator EXCEPT !.pc = "agent_stop", !.i = 1,
                                            !.stops = 1]
    /\ UNCHANGED <<notagents, agents>>

\* agent.stop(), first statement: the agent's flag is cleared.
AgentStop ==
    /\ orchestrator.pc = "agent_stop"
    /\ agents' = [agents EXCEPT ![orchestrator.i].running = FALSE]
    /\ orchestrator' = [orchestrator EXCEPT !.pc = "agent_close"]
    /\ UNCHANGED notagents

\* agent.stop(), after its sleep of 0.1 s: close() closes the agent's sockets.
AgentClose ==
    /\ orchestrator.pc = "agent_close"
    /\ LET closing == close(agents[orchestrator.i].closed) IN
       /\ agents' = [agents EXCEPT ![orchestrator.i].closed = closing.closed]
       /\ orchestrator' =
              IF closing.exc # NoExc
              THEN [orchestrator EXCEPT !.pc = "raised", !.exc = closing.exc]
              ELSE [orchestrator EXCEPT !.pc = "agent_join"]
    /\ UNCHANGED notagents

\* agent.join() returns once the agent's thread has ended; stop goes on to
\* the next agent, or to the context after the last.
AgentJoin ==
    /\ orchestrator.pc = "agent_join"
    /\ agents[orchestrator.i].pc = "done"
    /\ orchestrator' =
           IF orchestrator.i < NumAgents
           THEN [orchestrator EXCEPT !.pc = "agent_stop", !.i = @ + 1]
           ELSE [orchestrator EXCEPT !.pc = "term"]
    /\ UNCHANGED <<notagents, agents>>

\* dumb_agents_context.term()
ContextTerm ==
    /\ orchestrator.pc = "term"
    /\ LET term == Context_term(orchestrator.terminated) IN
       orchestrator' =
           IF term.exc # NoExc
           THEN [orchestrator EXCEPT !.pc = "raised", !.exc = term.exc]
           ELSE [orchestrator EXCEPT
                   !.pc = "done",
                   !.terminated = term.terminated,
                   !.first = IF orchestrator.stops = 1
                             THEN <<agents, term.terminated>> ELSE @]
    /\ UNCHANGED <<notagents, agents>>

\* OrderRouter.stop is called: it clears _running, then sleeps 0.2 s.
RouterStop ==
    /\ router.stop = "idle"
    /\ router' = [router EXCEPT !.running = FALSE, !.stop = "sleep",
                                !.stops = 1]
    /\ UNCHANGED notrouter

\* OrderRouter.stop after its sleep: socket.close() and context.term().
RouterClose ==
    /\ router.stop = "sleep"
    /\ LET closing == Socket_close(router.closed)
           term == Context_term(router.closed)
       IN router' =
              IF closing.exc # NoExc
              THEN [router EXCEPT !.stop = "raised", !.stop_exc = closing.exc]
              ELSE IF term.exc # NoExc
              THEN [router EXCEPT !.stop = "raised", !.stop_exc = term.exc,
                                  !.closed = closing.closed]
              ELSE [router EXCEPT
                      !.closed = closing.closed,
                      !.stop = "done",
                      !.first = IF router.stops = 1
                                THEN <<FALSE, closing.closed>> ELSE @]
    /\ UNCHANGED notrouter

\* A message arrives after _running was cleared and before the socket is
\* closed: whatever it is, it is not passed on, and the loop condition ends
\* run.
RouterLastMessage ==
    /\ Idle
    /\ router.exc = NoExc /\ ~router.exited
    /\ ~router.running /\ ~router.closed
    /\ router' = [router EXCEPT !.exited = TRUE]
    /\ UNCHANGED notrouter

\* The socket is closed under the thread blocked in recv_json, which raises
\* ZMQError; with _running cleared it is not raised again, and run goes on to
\* message.get: message is still the previous message (the loop condition
\* then ends run) or, if none was received, an unbound local (run ends with
\* UnboundLocalError).  The thread may as well stay blocked: this step need
\* not happen.
RouterRecvClosed ==
    /\ Idle
    /\ router.exc = NoExc /\ ~router.exited
    /\ router.closed
    /\ router' = [router EXCEPT
                    !.exited = TRUE,
                    !.exc = IF router.accepted = 0 /\ router.others = 0
                            THEN "UnboundLocalError" ELSE NoExc]
    /\ UNCHANGED notrouter

\* main.py: KeyboardInterrupt cancels the main task, whose sleep raises
\* CancelledError.
MainInterrupt ==
    /\ main.pc = "wait"
    /\ main' = [main EXCEPT !.pc = "cancel_market_maker"]
    /\ UNCHANGED notmain

\* market_maker_task.cancel()
MainCancelMarketMaker ==
    /\ main.pc = "cancel_market_maker"
    /\ main' = [main EXCEPT !.pc = "cancel_agents",
                            !.market_maker_task = "cancelling"]
    /\ UNCHANGED notmain

\* for task in agent_task_group: task.cancel(); then raise, which has the
\* TaskGroup wait for its tasks.
MainCancelAgents ==
    /\ main.pc = "cancel_agents"
    /\ main' = [main EXCEPT !.pc = "exit_group",
                            !.agent_tasks = [a \in Agents |-> "cancelling"]]
    /\ UNCHANGED notmain

\* MarketMaker.run receives the CancelledError, closes its socket and ends.
MarketMakerCancelled ==
    /\ main.pc = "exit_group"
    /\ main.market_maker_task = "cancelling"
    /\ main' = [main EXCEPT !.market_maker_task = "done",
                            !.socket_closed = TRUE]
    /\ UNCHANGED notmain

\* trading_agent receives the CancelledError, closes its socket and ends.
AgentCancelled(a) ==
    /\ main.pc = "exit_group"
    /\ main.agent_tasks[a] = "cancelling"
    /\ main' = [main EXCEPT !.agent_tasks[a] = "done"]
    /\ UNCHANGED notmain

\* Every task of the TaskGroup has ended: asyncio.run returns and main enters
\* its finally block.
MainGroupExit ==
    /\ main.pc = "exit_group"
    /\ main.market_maker_task = "done"
    /\ \A a \in Agents : main.agent_tasks[a] = "done"
    /\ main' = [main EXCEPT !.pc = "finally"]
    /\ UNCHANGED notmain

\* The finally block, first clear_orders.
MainFinally ==
    /\ main.pc = "finally"
    /\ Cleanup

\* The finally block after clear_orders: socket.close and context.term.
MainDispose ==
    /\ main.pc = "finally"
    /\ cleanup.done
    /\ main' = [main EXCEPT !.pc = "done", !.socket_closed = TRUE,
                            !.context_terminated = TRUE]
    /\ UNCHANGED notmain

NextShutdown ==
    \/ \E a \in Agents : AgentWhile(a)
    \/ \E a \in Agents : AgentSend(a)
    \/ OrchestratorStop
    \/ AgentStop
    \/ AgentClose
    \/ AgentJoin
    \/ ContextTerm
    \/ \E m \in NonOrderMessages : RouterOther(m)
    \/ RouterStop
    \/ RouterClose
    \/ RouterLastMessage
    \/ RouterRecvClosed
    \/ MainInterrupt
    \/ MainCancelMarketMaker
    \/ MainCancelAgents
    \/ MarketMakerCancelled
    \/ \E a \in Agents : AgentCancelled(a)
    \/ MainGroupExit
    \/ MainFinally
    \/ MainDispose

SpecShutdown == Init /\ [][NextShutdown]_vars

\* ------------------------------------------------------- stop, called again
\* AgentOrchestrator.stop is called on the stopped orchestrator: the same
\* statements run again (AgentStop, AgentClose, AgentJoin, ContextTerm).
OrchestratorStopAgain ==
    /\ orchestrator.pc = "done"
    /\ orchestrator.stops = 1
    /\ orchestrator' = [orchestrator EXCEPT !.pc = "agent_stop", !.i = 1,
                                            !.stops = 2]
    /\ UNCHANGED <<notagents, agents>>

\* OrderRouter.stop is called on the stopped router: _running is cleared
\* again, and RouterClose follows its sleep.
RouterStopAgain ==
    /\ router.stop = "done"
    /\ router.stops = 1
    /\ router' = [router EXCEPT !.running = FALSE, !.stop = "sleep",
                                !.stops = 2]
    /\ UNCHANGED notrouter

\* DataRouter.stop, self.join(): returns once the thread's run has ended.
DataRouterJoin ==
    /\ data_router.stop = "join"
    /\ data_router.pc = "done"
    /\ data_router' = [data_router EXCEPT
                         !.stop = "done",
                         !.first = IF data_router.stops = 1
                                   THEN <<data_router.running, data_router.pc>>
                                   ELSE @]
    /\ UNCHANGED <<bookvars, market_snapshot_queue, now>>

\* DataRouter.stop is called on the stopped DataRouter.
DataRouterStopAgain ==
    /\ data_router.stop = "done"
    /\ data_router.stops = 1
    /\ data_router' = [data_router EXCEPT !.running = FALSE, !.stop = "join",
                                          !.stops = 2]
    /\ UNCHANGED <<bookvars, market_snapshot_queue, now>>

NextStop ==
    \/ \E a \in Agents : AgentWhile(a)
    \/ \E a \in Agents : AgentSend(a)
    \/ OrchestratorStop
    \/ AgentStop
    \/ AgentClose
    \/ AgentJoin
    \/ ContextTerm
    \/ OrchestratorStopAgain
    \/ RouterStop
    \/ RouterClose
    \/ RouterLastMessage
    \/ RouterRecvClosed
    \/ RouterStopAgain
    \/ DataRouterWhile
    \/ DataRouterEmpty
    \/ DataRouterStop
    \/ DataRouterJoin
    \/ DataRouterStopAgain

SpecStop == Init /\ [][NextStop]_vars

\* ------------------------------------------------------ the four workers
\* The agents, the orchestrator stopping them, the OrderRouter and the
\* DataRouter running side by side, on a Database whose snapshot method its
\* owner calls.
\* The orders of this setting: a bid above and a bid below an ask of twice
\* their quantity, so that the ask can cross, stop at its price and rest, or
\* find the bid side empty.
WorkerOrders(a) ==
    {Stamped([account_id |-> agent_id(a), side |-> "BUY", quantity |-> 1,
              order_type |-> "LIMIT", price |-> MaxPrice + 1], None),
     Stamped([account_id |-> agent_id(a), side |-> "BUY", quantity |-> 1,
              order_type |-> "LIMIT", price |-> 1], None),
     Stamped([account_id |-> agent_id(a), side |-> "SELL", quantity |-> 2,
              order_type |-> "LIMIT", price |-> MaxPrice], None)}

\* DumbTradingAgent.run after the sleep: send_random_order sends an order on
\* the PUSH socket if _running is still set; on a closed socket send_json
\* raises, and run catches the exception.
AgentSendOrder(a, o) ==
    /\ agents[a].pc = "sleep"
    /\ SentBy(Agents) < MaxOrders
    /\ agents' = [agents EXCEPT ![a].pc = "while"]
    /\ IF agents[a].running /\ ~agents[a].closed
       THEN /\ pipes' = [pipes EXCEPT ![a] = Append(@, OrderMessage(o))]
            /\ sent' = [sent EXCEPT ![a] = Append(@, o)]
       ELSE UNCHANGED <<pipes, sent>>
    /\ UNCHANGED <<bid_heap, ask_heap, clearing_orders, stack, order, outcome,
                   n_sent, submitted, pre, last_trade, cleanup,
                   market_snapshot_queue, router, data_router, now, codec,
                   received, orchestrator, main>>

\* The objects as constructed, last_trade being a pair the Database's owner
\* assigned (with the initial pair no snapshot is ever queued).
InitWorkers ==
    \E lt \in {<<1, 1>>} :
        /\ bid_heap = EmptyHeap
        /\ ask_heap = EmptyHeap
        /\ clearing_orders = <<>>
        /\ stack = <<>>
        /\ order = NoSubmit
        /\ outcome = "none"
        /\ n_sent = 0
        /\ submitted = NoSubmit
        /\ pre = [bid_heap |-> EmptyHeap, ask_heap |-> EmptyHeap,
                  clearing_orders |-> <<>>]
        /\ cleanup = [done |-> FALSE, given |-> <<>>, printed |-> <<>>,
                      exc |-> NoExc]
        /\ market_snapshot_queue = <<>>
        /\ router = NewRouter
        /\ data_router = NewDataRouter
        /\ now = 0
        /\ InitShutdown
        /\ InitWire
        /\ last_trade = lt

\* The steps of each worker.
AgentStep ==
    \E a \in Agents :
        \/ AgentWhile(a)
        \/ \E o \in WorkerOrders(a) : AgentSendOrder(a, o)

OrchestratorStep ==
    \/ OrchestratorStop
    \/ AgentStop
    \/ AgentClose
    \/ AgentJoin
    \/ ContextTerm

RouterStep ==
    \/ \E a \in Agents : WireRecv(a)
    \/ HandleLimitOrder
    \/ HandleMarketOrder
    \/ RouterReturn
    \/ RouterRaise

DataRouterStep ==
    \/ DataRouterWhile
    \/ DataRouterGet
    \/ DataRouterEmpty

NextWorkers ==
    \/ AgentStep
    \/ OrchestratorStep
    \/ RouterStep
    \/ DataRouterStep
    \/ Database_snapshot

SpecWorkers == InitWorkers /\ [][NextWorkers]_vars

\* ------------------------------------------- snapshots and resting orders
\* get_snapshot passes the Order objects that peek_top_bid and
\* peek_bottom_ask return, the objects resting in the book, to Snapshot(...).
\* A field of type Order given an Order instance keeps that instance (pydantic
\* does not validate an instance of the field's class again and makes no
\* copy of it), so that a queued snapshot refers to the resting objects and
\* shows what becomes of them.  The threaded program runs on that pydantic
\* only: Message.model_dump calls self.data.model_dump(), and an older
\* pydantic, which would copy the orders, turns the data of a Message into a
\* dict, which has no such method.
\* Objects are told apart by the field id, the how-manieth Order object the
\* router made; the orders of this setting are a bid of two shares, a bid of
\* one share above an ask of two, and a market SELL of one share, which
\* fills the best bid in place when that is the bid of two.
AliasOrders(n) ==
    {[account_id |-> Sender(n), side |-> "BUY", quantity |-> 2,
      order_type |-> "LIMIT", price |-> 1, id |-> n],
     [account_id |-> Sender(n), side |-> "BUY", quantity |-> 1,
      order_type |-> "LIMIT", price |-> MaxPrice + 1, id |-> n],
     [account_id |-> Sender(n), side |-> "SELL", quantity |-> 2,
      order_type |-> "LIMIT", price |-> MaxPrice, id |-> n],
     [account_id |-> Sender(n), side |-> "SELL", quantity |-> 1,
      order_type |-> "MARKET", price |-> None, id |-> n]}

\* The Order objects resting in a side book.
RestingObjects(h) ==
    UNION {{h.order_dict[p][k] : k \in DOMAIN h.order_dict[p]} :
              p \in DOMAIN h.order_dict}

\* The object a snapshot refers to by o, as the books bh and ah hold it now;
\* an object that has left the book stays as it was when it left (a popped
\* order is not written to afterwards).
Referent(o, bh, ah) ==
    LET same == {r \in RestingObjects(bh) \cup RestingObjects(ah) : r.id = o.id}
    IN IF same = {} THEN o ELSE CHOOSE r \in same : TRUE

\* The queued snapshots after the books have become bh and ah.
Seen(q, bh, ah) ==
    [i \in DOMAIN q |->
        [q[i] EXCEPT !.top_bid = Referent(@, bh, ah),
                     !.top_ask = Referent(@, bh, ah)]]

\* What a step of the OrderRouter worker leaves alone but the queue.
aliasrest == <<last_trade, cleanup, router, data_router, now, wirevars,
               shutvars>>

\* send_order called by the OrderRouter worker with a new Order object.
AliasSendOrder(o) ==
    /\ call_send_order(o)
    /\ market_snapshot_queue' = Seen(market_snapshot_queue, bid_heap', ask_heap')
    /\ UNCHANGED aliasrest

\* The handlers' further steps, by the same worker.
AliasHandleLimitOrder ==
    /\ ~Idle /\ Top = "handle_limit_order"
    /\ Effect(stack, Handle("handle_limit_order", order))
    /\ market_snapshot_queue' = Seen(market_snapshot_queue, bid_heap', ask_heap')
    /\ UNCHANGED <<n_sent, submitted, pre>>
    /\ UNCHANGED aliasrest

AliasHandleMarketOrder ==
    /\ ~Idle /\ Top = "handle_market_order"
    /\ Effect(stack, Handle("handle_market_order", order))
    /\ market_snapshot_queue' = Seen(market_snapshot_queue, bid_heap', ask_heap')
    /\ UNCHANGED <<n_sent, submitted, pre>>
    /\ UNCHANGED aliasrest

\* The OrderRouter worker, the DataRouter thread, and snapshot() called
\* between any two of their steps.
NextAlias ==
    \/ \E o \in AliasOrders(n_sent) : AliasSendOrder(o)
    \/ AliasHandleLimitOrder
    \/ AliasHandleMarketOrder
    \/ Database_snapshot
    \/ DataRouterStep

SpecAlias == InitWorkers /\ [][NextAlias]_vars

\* ------------------------------------- AgentOrchestrator.run against stop
\* The orchestrator's thread runs _setup_dumb_agents, statement by statement,
\* while another thread calls stop().  An agent's pc is "none" before
\* DumbTradingAgent(...) has made it, "new" when it is made and not started;
\* listed tells whether it is in self.agents.  Of the orchestrator, run is
\* where its thread is, agent the agent the setup loop is at, running its
\* _running flag.
InitSetup ==
    /\ bid_heap = EmptyHeap
    /\ ask_heap = EmptyHeap
    /\ clearing_orders = <<>>
    /\ stack = <<>>
    /\ order = NoSubmit
    /\ outcome = "none"
    /\ n_sent = 0
    /\ submitted = NoSubmit
    /\ pre = [bid_heap |-> EmptyHeap, ask_heap |-> EmptyHeap,
              clearing_orders |-> <<>>]
    /\ last_trade = <<None, None>>
    /\ cleanup = [done |-> FALSE, given |-> <<>>, printed |-> <<>>, exc |-> NoExc]
    /\ market_snapshot_queue = <<>>
    /\ router = NewRouter
    /\ data_router = NewDataRouter
    /\ now = 0
    /\ agents = [a \in Agents |->
                    [running |-> FALSE, pc |-> "none", closed |-> FALSE,
                     listed |-> FALSE]]
    /\ orchestrator = [pc |-> "idle", i |-> 1, terminated |-> FALSE,
                       stops |-> 0, exc |-> NoExc, first |-> <<>>,
                       running |-> TRUE, run |-> "create", agent |-> 1,
                       run_exc |-> NoExc]
    /\ main = [pc |-> "wait", market_maker_task |-> "running",
               agent_tasks |-> [a \in Agents |-> "running"],
               socket_closed |-> FALSE, context_terminated |-> FALSE]
    /\ InitWire

\* Context.socket: a terminated context makes no socket, the call raises
\* ZMQError.
Context_socket(terminated) == [exc |-> IF terminated THEN "ZMQError" ELSE NoExc]

\* _setup_dumb_agents, agent = DumbTradingAgent(mini_uuid(), context): the
\* constructor sets _running and makes the agent's sockets on the context;
\* an exception of it ends run.
SetupCreate ==
    /\ orchestrator.run = "create"
    /\ LET made == Context_socket(orchestrator.terminated) IN
       IF made.exc # NoExc
       THEN /\ orchestrator' = [orchestrator EXCEPT !.run = "raised",
                                                    !.run_exc = made.exc]
            /\ UNCHANGED agents
       ELSE /\ agents' = [agents EXCEPT
                            ![orchestrator.agent] =
                                [running |-> TRUE, pc |-> "new",
                                 closed |-> FALSE, listed |-> FALSE]]
            /\ orchestrator' = [orchestrator EXCEPT !.run = "append"]
    /\ UNCHANGED notagents

\* self.agents.append(agent)
SetupAppend ==
    /\ orchestrator.run = "append"
    /\ agents' = [agents EXCEPT ![orchestrator.agent].listed = TRUE]
    /\ orchestrator' = [orchestrator EXCEPT !.run = "start"]
    /\ UNCHANGED notagents

\* agent.start(): the agent's thread begins run (whatever its flag is); the
\* loop goes on to the next agent, and after the last run enters its loop.
SetupStart ==
    /\ orchestrator.run = "start"
    /\ agents' = [agents EXCEPT ![orchestrator.agent].pc = "while"]
    /\ orchestrator' =
           IF orchestrator.agent < NumAgents
           THEN [orchestrator EXCEPT !.run = "create", !.agent = @ + 1]
           ELSE [orchestrator EXCEPT !.run = "while"]
    /\ UNCHANGED notagents

\* run: while self._running: sleep(0.1); the loop ends once the flag is
\* cleared.
SetupWhile ==
    /\ orchestrator.run = "while"
    /\ ~orchestrator.running
    /\ orchestrator' = [orchestrator EXCEPT !.run = "done"]
    /\ UNCHANGED <<notagents, agents>>

\* stop() is called: self._running = False.
SetupStop ==
    /\ orchestrator.pc = "idle"
    /\ orchestrator' = [orchestrator EXCEPT !.running = FALSE, !.pc = "for",
                                            !.i = 1, !.stops = 1]
    /\ UNCHANGED <<notagents, agents>>

\* stop(), for agent in self.agents: the iterator gives the next agent of
\* the list as the list is at this moment, or ends the loop.
SetupFor ==
    /\ orchestrator.pc = "for"
    /\ orchestrator' =
           IF orchestrator.i <= NumAgents /\ agents[orchestrator.i].listed
           THEN [orchestrator EXCEPT !.pc = "agent_stop"]
           ELSE [orchestrator EXCEPT !.pc = "term"]
    /\ UNCHANGED <<notagents, agents>>

\* stop(), agent.join(): raises RuntimeError on a thread that was not
\* started, and returns once a started thread has ended.
SetupJoin ==
    /\ orchestrator.pc = "agent_join"
    /\ agents[orchestrator.i].pc \in {"new", "done"}
    /\ orchestrator' =
           IF agents[orchestrator.i].pc = "new"
           THEN [orchestrator EXCEPT !.pc = "raised", !.exc = "RuntimeError"]
           ELSE [orchestrator EXCEPT !.pc = "for", !.i = @ + 1]
    /\ UNCHANGED <<notagents, agents>>

\* stop(), dumb_agents_context.term(): returns when every socket made on the
\* context has been closed, and waits until then.
SetupTerm ==
    /\ orchestrator.pc = "term"
    /\ \A a \in Agents : agents[a].pc = "none" \/ agents[a].closed
    /\ orchestrator' = [orchestrator EXCEPT
                          !.pc = "done",
                          !.terminated = Context_term(@).terminated]
    /\ UNCHANGED <<notagents, agents>>

\* The orchestrator's thread, the thread that calls stop(), and the agents'
\* threads.
NextSetup ==
    \/ SetupCreate
    \/ SetupAppend
    \/ SetupStart
    \/ SetupWhile
    \/ SetupStop
    \/ SetupFor
    \/ AgentStop
    \/ AgentClose
    \/ SetupJoin
    \/ SetupTerm
    \/ \E a \in Agents : AgentWhile(a)
    \/ \E a \in Agents : AgentSend(a)

SpecSetup == InitSetup /\ [][NextSetup]_vars

\* ------------------------------------ an agent's loop against its stop()
\* DumbTradingAgent.run statement by statement, with stop() called on the
\* agent by the thread of AgentOrchestrator.stop.
\* The sleep of 1 to 3 seconds is over and send_random_order has made its
\* order (the orders sent are bounded while the agent runs).
AgentSlept(a) ==
    /\ agents[a].pc = "sleep"
    /\ SentBy(Agents) < MaxOrders \/ ~agents[a].running
    /\ agents' = [agents EXCEPT ![a].pc = "if"]
    /\ UNCHANGED <<notagents, orchestrator>>

\* send_random_order: if self._running.
AgentIfRunning(a) ==
    /\ agents[a].pc = "if"
    /\ agents' = [agents EXCEPT
                    ![a].pc = IF agents[a].running THEN "send" ELSE "while"]
    /\ UNCHANGED <<notagents, orchestrator>>

\* send_random_order: self.send_order(order).  send_json on the closed
\* socket raises ZMQError, which send_order raises again and run catches;
\* either way run goes back to its loop condition.
AgentSendJson(a, o) ==
    /\ agents[a].pc = "send"
    /\ agents' = [agents EXCEPT ![a].pc = "while"]
    /\ IF agents[a].closed THEN UNCHANGED <<pipes, sent>>
       ELSE /\ pipes' = [pipes EXCEPT ![a] = Append(@, OrderMessage(o))]
            /\ sent' = [sent EXCEPT ![a] = Append(@, o)]
    /\ UNCHANGED <<bid_heap, ask_heap, clearing_orders, stack, order, outcome,
                   n_sent, submitted, pre, last_trade, cleanup,
                   market_snapshot_queue, router, data_router, now, codec,
                   received, orchestrator, main>>

\* The steps of an agent's thread.
AgentLoop(a) ==
    \/ AgentWhile(a)
    \/ AgentSlept(a)
    \/ AgentIfRunning(a)
    \/ \E o \in WorkerOrders(a) : AgentSendJson(a, o)

NextAgent ==
    \/ \E a \in Agents : AgentLoop(a)
    \/ OrchestratorStep

SpecAgent == Init /\ [][NextAgent]_vars

\* Each thread that can take a step takes one in the end: the agents'
\* threads and the thread that runs stop().
FairAgent ==
    /\ \A a \in Agents : WF_vars(AgentLoop(a))
    /\ WF_vars(OrchestratorStep)

SpecAgentFair == SpecAgent /\ FairAgent

\* ------------------------------------------- the loop of OrderRouter.run
\* The statements of run one by one, with OrderRouter.stop called from
\* another thread.  The messages the socket delivers, and the failures of
\* recv_json, are bounded.
MaxEnvelopes == 3
MaxErrors == 1

\* The messages recv_json may return: the ORDER messages of an agent, and
\* messages that are not ORDER messages.
LoopMessages ==
    {OrderMessage(o) : o \in WorkerOrders(1)} \cup NonOrderMessages

\* The router thread about to test `while self._running`: message is not
\* bound yet (held is 0; otherwise it is the number of the receipt that bound
\* it), receipts records for each message received whether _running was set
\* when recv_json returned it, submissions the numbers of the receipts whose
\* message was passed to send_order, errors the failures of recv_json.
LoopRouter ==
    [pc |-> "while", held |-> 0, receipts |-> <<>>, submissions |-> <<>>,
     errors |-> 0] @@ NewRouter

InitLoop ==
    /\ bid_heap = EmptyHeap
    /\ ask_heap = EmptyHeap
    /\ clearing_orders = <<>>
    /\ stack = <<>>
    /\ order = NoSubmit
    /\ outcome = "none"
    /\ n_sent = 0
    /\ submitted = NoSubmit
    /\ pre = [bid_heap |-> EmptyHeap, ask_heap |-> EmptyHeap,
              clearing_orders |-> <<>>]
    /\ last_trade = <<None, None>>
    /\ cleanup = [done |-> FALSE, given |-> <<>>, printed |-> <<>>, exc |-> NoExc]
    /\ market_snapshot_queue = <<>>
    /\ router = LoopRouter
    /\ data_router = NewDataRouter
    /\ now = 0
    /\ InitShutdown
    /\ InitWire

\* The thread is in run at the statement pc.
LoopAt(pc) == ~router.exited /\ router.pc = pc

\* while self._running
LoopWhile ==
    /\ LoopAt("while")
    /\ router' = IF router.running THEN [router EXCEPT !.pc = "recv"]
                 ELSE [router EXCEPT !.pc = "done", !.exited = TRUE]
    /\ UNCHANGED notrouter

\* message = self.socket.recv_json() returns message m.
LoopRecv(m) ==
    /\ LoopAt("recv")
    /\ ~router.closed
    /\ Len(router.receipts) < MaxEnvelopes
    /\ router' = [router EXCEPT
                    !.pc = "get",
                    !.message = m,
                    !.held = Len(router.receipts) + 1,
                    !.receipts = Append(@, router.running)]
    /\ UNCHANGED notrouter

\* recv_json raises zmq.ZMQError on an open socket (a transport error);
\* message keeps the value it had.
LoopRecvError ==
    /\ LoopAt("recv")
    /\ ~router.closed
    /\ router.errors < MaxErrors
    /\ router' = [router EXCEPT !.pc = "except", !.errors = @ + 1]
    /\ UNCHANGED notrouter

\* recv_json on the socket stop() has closed: called on the closed socket it
\* raises ZMQError; a call that was blocked when the socket was closed under
\* it may raise ZMQError as well, or stay blocked for ever (the socket is
\* used by two threads, which zmq does not define).
LoopRecvClosed ==
    /\ LoopAt("recv")
    /\ router.closed
    /\ router' = [router EXCEPT !.pc = "except"]
    /\ UNCHANGED notrouter

\* except zmq.ZMQError: if self._running: raise
LoopExcept ==
    /\ LoopAt("except")
    /\ router' = IF router.running
                 THEN [router EXCEPT !.pc = "done", !.exited = TRUE,
                                     !.exc = "ZMQError"]
                 ELSE [router EXCEPT !.pc = "get"]
    /\ UNCHANGED notrouter

\* if message.get("message_type") == "ORDER": an unbound message raises
\* UnboundLocalError; a message of another type sends run back to the loop
\* condition.
LoopGet ==
    /\ LoopAt("get")
    /\ router' = IF router.held = 0
                 THEN [router EXCEPT !.pc = "done", !.exited = TRUE,
                                     !.exc = "UnboundLocalError"]
                 ELSE IF get_message_type(router.message) = "ORDER"
                 THEN [router EXCEPT !.pc = "running"]
                 ELSE [router EXCEPT !.pc = "while"]
    /\ UNCHANGED notrouter

\* Faulty variant of LoopRunning: the order is passed on whatever the flag.
LoopRunningAlways ==
    /\ LoopAt("running")
    /\ router' = [router EXCEPT !.pc = "validate"]
    /\ UNCHANGED notrouter

\* if not self._running: continue
LoopRunning ==
    /\ LoopAt("running")
    /\ router' = IF ~router.running THEN [router EXCEPT !.pc = "while"]
                 ELSE [router EXCEPT !.pc = "validate"]
    /\ UNCHANGED notrouter

\* order = Order.model_validate_json(message.get("data")) and
\* self.order_book.send_order(order); a KeyError of the validation ends run.
LoopSendOrder ==
    /\ LoopAt("validate")
    /\ LET validated == model_validate_json(router.message.data) IN
       IF validated.exc # NoExc
       THEN /\ router' = [router EXCEPT !.pc = "done", !.exited = TRUE,
                                        !.exc = validated.exc]
            /\ UNCHANGED <<bid_heap, ask_heap, clearing_orders, stack, order,
                           outcome, n_sent, submitted, pre>>
       ELSE /\ call_send_order(validated.order)
            /\ router' = [router EXCEPT
                            !.pc = "send_order",
                            !.submissions = Append(@, router.held)]
    /\ UNCHANGED <<last_trade, cleanup, market_snapshot_queue, data_router,
                   now, wirevars, shutvars>>

\* send_order has returned (run logs the book and goes back to the loop
\* condition) or raised (nothing in run catches the exception).
LoopSendOrderEnds ==
    /\ LoopAt("send_order")
    /\ Idle
    /\ router' = IF outcome = "ok"
                 THEN [router EXCEPT !.pc = "while", !.accepted = @ + 1]
                 ELSE [router EXCEPT !.pc = "done", !.exited = TRUE,
                                     !.exc = outcome]
    /\ UNCHANGED notrouter

\* The steps of the router thread, and those of the thread calling stop.
LoopStep ==
    \/ LoopWhile
    \/ \E m \in LoopMessages : LoopRecv(m)
    \/ LoopRecvError
    \/ LoopExcept
    \/ LoopGet
    \/ LoopRunning
    \/ LoopSendOrder
    \/ HandleLimitOrder
    \/ HandleMarketOrder
    \/ LoopSendOrderEnds

StopStep ==
    \/ RouterStop
    \/ RouterClose

NextLoop ==
    \/ LoopStep
    \/ LoopRecvClosed
    \/ StopStep

SpecLoop == InitLoop /\ [][NextLoop]_vars

\* The threads are scheduled: a step that a thread can take is taken.  That
\* recv_json returns is no step of the thread: a message need not arrive, a
\* transport error need not occur, and the call blocked on the socket closed
\* under it need not return.
FairLoop ==
    /\ WF_vars(LoopWhile)
    /\ WF_vars(LoopExcept)
    /\ WF_vars(LoopGet)
    /\ WF_vars(LoopRunning)
    /\ WF_vars(LoopSendOrder)
    /\ WF_vars(HandleLimitOrder)
    /\ WF_vars(HandleMarketOrder)
    /\ WF_vars(LoopSendOrderEnds)
    /\ WF_vars(StopStep)

SpecLoopFair == SpecLoop /\ FairLoop

\* ================================================================ properties
Max(S) == CHOOSE x \in S : \A y \in S : y <= x
Min(S) == CHOOSE x \in S : \A y \in S : x <= y
Last(q) == q[Len(q)]

RECURSIVE SumQty(_)
SumQty(q) == IF q = <<>> THEN 0 ELSE Head(q).quantity + SumQty(Tail(q))

\* Total quantity resting in a side's order_dict.
RECURSIVE TotalVolume(_)
TotalVolume(d) ==
    IF DOMAIN d = {} THEN 0
    ELSE LET k == CHOOSE x \in DOMAIN d : TRUE
         IN SumQty(d[k]) + TotalVolume(DictDel(d, k))

\* The order a step works on: the order passed to send_order, or the order of
\* the running handler.
Incoming == IF Idle THEN submitted' ELSE order

\* A step that appends one trade to the clearing house.
FillStep ==
    /\ Len(clearing_orders') = Len(clearing_orders) + 1
    /\ SubSeq(clearing_orders', 1, Len(clearing_orders)) = clearing_orders
NewFill == clearing_orders'[Len(clearing_orders')]

\* The trades of the last send_order.
Fills == SubSeq(clearing_orders, Len(pre.clearing_orders) + 1, Len(clearing_orders))

\* d2 is d with q taken from the head order of level best and nothing else
\* touched: the head is removed (the level with it when it was alone) or keeps
\* its place with q less.
ConsumesHead(d, d2, best, q) ==
    /\ DOMAIN d2 \subseteq DOMAIN d
    /\ \A p \in DOMAIN d \ {best} : p \in DOMAIN d2 /\ d2[p] = d[p]
    /\ \/ best \notin DOMAIN d2 /\ Len(d[best]) = 1
       \/ best \in DOMAIN d2 /\ Len(d[best]) > 1 /\ d2[best] = Tail(d[best])
       \/ /\ best \in DOMAIN d2
          /\ q < d[best][1].quantity
          /\ d2[best] = [d[best] EXCEPT ![1].quantity = @ - q]

FillFields ==
    [][/\ clearing_orders' # clearing_orders => FillStep
       /\ FillStep =>
            LET sell == Incoming.side = "SELL"
                counter == IF sell THEN peek_top_bid(bid_heap).val
                           ELSE peek_bottom_ask(ask_heap).val
                matched == IF sell
                           THEN TotalVolume(bid_heap.order_dict)
                                - TotalVolume(bid_heap'.order_dict)
                           ELSE TotalVolume(ask_heap.order_dict)
                                - TotalVolume(ask_heap'.order_dict)
            IN /\ counter # NoOrder
               /\ NewFill.buyside_account_id =
                    (IF sell THEN counter.account_id ELSE Incoming.account_id)
               /\ NewFill.sellside_account_id =
                    (IF sell THEN Incoming.account_id ELSE counter.account_id)
               /\ NewFill.price = counter.price
               /\ NewFill.quantity = matched
    ]_vars

\* An incoming SELL has traded with a resting bid of another account.
FillFieldsWitness ==
    /\ submitted.side = "SELL"
    /\ Len(Fills) >= 1
    /\ Fills[1].sellside_account_id = submitted.account_id
    /\ Fills[1].buyside_account_id # submitted.account_id
    /\ Fills[1].quantity > 0

\* The price levels of d that a step changed or removed.
ChangedLevels(d, d2) == {p \in DOMAIN d : p \notin DOMAIN d2 \/ d2[p] # d[p]}

\* C3 -- A priced order never trades at a worse price than its own: a trade
\* of an incoming BUY with price p is at a price <= p, of an incoming SELL at
\* a price >= p, and the resting order taken from is filled at its own price.
LimitPriceRespected ==
    [][FillStep =>
        LET sell == Incoming.side = "SELL"
            d == IF sell THEN bid_heap.order_dict ELSE ask_heap.order_dict
            d2 == IF sell THEN bid_heap'.order_dict ELSE ask_heap'.order_dict
        IN /\ Incoming.price # None =>
                IF sell THEN NewFill.price >= Incoming.price
                ELSE NewFill.price <= Incoming.price
           /\ Cardinality(ChangedLevels(d, d2)) = 1
           /\ \A p \in ChangedLevels(d, d2) : d[p][1].price = NewFill.price
    ]_vars

\* A priced SELL has traded above its own price.
LimitPriceRespectedWitness ==
    /\ submitted.side = "SELL"
    /\ submitted.price # None
    /\ Len(Fills) >= 1
    /\ Fills[1].price > submitted.price
    /\ Fills[1].quantity > 0

\* The expected shape of a side book: the prices on the heap (negated back on
\* the bid side) are exactly the keys of order_dict, each once, and every
\* queue holds an order.
HeapPrices(h, sign) == {sign * h.price_heap[i] : i \in 1..Len(h.price_heap)}
InLockStep(h, sign) ==
    /\ HeapPrices(h, sign) = DOMAIN h.order_dict
    /\ Len(h.price_heap) = Cardinality(DOMAIN h.order_dict)
    /\ \A p \in DOMAIN h.order_dict : Len(h.order_dict[p]) > 0

\* C4 -- Index/mapping lock-step: in every reachable state of each side book
\* the set of prices on the price heap equals the set of keys of order_dict,
\* without duplicates, and every mapped queue is non-empty.
LockStep == InLockStep(bid_heap, 0 - 1) /\ InLockStep(ask_heap, 1)

\* A send_order has returned or raised.
Returned == Idle /\ n_sent > 0
Raised == outcome \notin {"ok", "running", "none"}

OwnSide(b, o) == IF o.side = "BUY" THEN b.bid_heap ELSE b.ask_heap
OppositeSide(b, o) == IF o.side = "BUY" THEN b.ask_heap ELSE b.bid_heap

\* The best price resting on the side opposite to o in book b.
OppositeBest(b, o) ==
    IF o.side = "BUY" THEN Min(DOMAIN b.ask_heap.order_dict)
    ELSE Max(DOMAIN b.bid_heap.order_dict)

\* The opposite side of book b holds orders, all of them priced.
OppositePriced(b, o) ==
    /\ DOMAIN OppositeSide(b, o).order_dict # {}
    /\ None \notin DOMAIN OppositeSide(b, o).order_dict

\* No resting order has a quantity of zero or less.
RestingPositive(h) ==
    \A p \in DOMAIN h.order_dict :
        \A i \in 1..Len(h.order_dict[p]) : h.order_dict[p][i].quantity > 0

PreInLockStep == InLockStep(pre.bid_heap, 0 - 1) /\ InLockStep(pre.ask_heap, 1)

\* Before the last send_order the book was in lock-step and every resting
\* order had a price.
PreSound ==
    /\ PreInLockStep
    /\ None \notin DOMAIN pre.bid_heap.order_dict
    /\ None \notin DOMAIN pre.ask_heap.order_dict

\* Before the last send_order every resting order had a positive quantity.
PrePositive == RestingPositive(pre.bid_heap) /\ RestingPositive(pre.ask_heap)

\* C5 -- A LIMIT BUY whose price equals the best ask crosses the spread: it is
\* matched against the ask side instead of being rested on the bid side.
BuyAtBestAskCrosses ==
    (/\ Returned
     /\ PreSound /\ PrePositive
     /\ submitted.order_type = "LIMIT" /\ submitted.side = "BUY"
     /\ submitted.price # None /\ submitted.quantity > 0
     /\ OppositePriced(pre, submitted)
     /\ submitted.price = OppositeBest(pre, submitted))
    => /\ Len(Fills) >= 1
       /\ ask_heap # pre.ask_heap
       /\ TotalVolume(bid_heap.order_dict) < TotalVolume(pre.bid_heap.order_dict)
                                             + submitted.quantity

\* o does not cross the opposite best of book b (crossing is strict: a BUY
\* above the best ask, a SELL below the best bid), or the opposite side holds
\* no order.
NotCrossing(b, o) ==
    \/ DOMAIN OppositeSide(b, o).order_dict = {}
    \/ /\ OppositePriced(b, o)
       /\ IF o.side = "BUY" THEN o.price <= OppositeBest(b, o)
          ELSE o.price >= OppositeBest(b, o)

\* The head order of the best level, as the side book reports it.
BestOf(b, o) == IF o.side = "BUY" THEN peek_top_bid(b.bid_heap)
                ELSE peek_bottom_ask(b.ask_heap)

\* C6 -- An accepted LIMIT order whose price does not cross the opposite best
\* (or whose opposite side is empty) is, after send_order, the last order of
\* the queue at its price on its own side; the best price of that side is at
\* least as favourable as its price; no trade was made and the opposite side
\* is unchanged.  On a book in lock-step whose resting orders all have a
\* price such an order is always accepted.
NonCrossingLimitRests ==
    (/\ Returned
     /\ submitted.order_type = "LIMIT" /\ submitted.price # None
     /\ NotCrossing(pre, submitted)
     /\ outcome = "ok" \/ PreSound)
    => LET own == OwnSide(Book, submitted)
           was == OwnSide(pre, submitted)
           p == submitted.price
       IN /\ outcome = "ok"
          /\ Fills = <<>>
          /\ clearing_orders = pre.clearing_orders
          /\ OppositeSide(Book, submitted) = OppositeSide(pre, submitted)
          /\ DOMAIN own.order_dict = DOMAIN was.order_dict \cup {p}
          /\ \A q \in DOMAIN was.order_dict \ {p} : own.order_dict[q] = was.order_dict[q]
          /\ Last(own.order_dict[p]) = submitted
          /\ own.order_dict[p] =
                Append(IF p \in DOMAIN was.order_dict THEN was.order_dict[p] ELSE <<>>,
                       submitted)
          /\ BestOf(Book, submitted).exc = NoExc
          /\ BestOf(Book, submitted).val # NoOrder
          /\ IF submitted.side = "BUY"
             THEN BestOf(Book, submitted).val.price >= p
             ELSE BestOf(Book, submitted).val.price <= p

\* A LIMIT BUY below the best ask has joined a bid level that already held an
\* order.
NonCrossingLimitRestsWitness ==
    /\ Returned /\ outcome = "ok"
    /\ submitted.order_type = "LIMIT" /\ submitted.side = "BUY"
    /\ submitted.price # None /\ submitted.quantity > 0
    /\ OppositePriced(pre, submitted)
    /\ submitted.price < OppositeBest(pre, submitted)
    /\ submitted.price \in DOMAIN pre.bid_heap.order_dict
    /\ Len(bid_heap.order_dict[submitted.price]) = 2

\* Number of orders resting in a side's order_dict.
RECURSIVE CountOrders(_)
CountOrders(d) ==
    IF DOMAIN d = {} THEN 0
    ELSE LET k == CHOOSE x \in DOMAIN d : TRUE
         IN Len(d[k]) + CountOrders(DictDel(d, k))

\* C7 -- A crossing LIMIT order that consumes every order of the opposite
\* side and still has residual quantity: the residual rests on the order's own
\* side at its limit price, no error is raised, and the trades already made
\* are kept.
CrossingResidualRests ==
    (/\ Returned
     /\ PreSound /\ PrePositive
     /\ submitted.order_type = "LIMIT" /\ submitted.price # None
     /\ OppositePriced(pre, submitted)
     /\ \A p \in DOMAIN OppositeSide(pre, submitted).order_dict :
            IF submitted.side = "BUY" THEN p < submitted.price
            ELSE p > submitted.price
     /\ TotalVolume(OppositeSide(pre, submitted).order_dict) < submitted.quantity)
    => LET own == OwnSide(Book, submitted)
           residual == submitted.quantity
                       - TotalVolume(OppositeSide(pre, submitted).order_dict)
       IN /\ outcome = "ok"
          /\ Len(Fills) = CountOrders(OppositeSide(pre, submitted).order_dict)
          /\ DOMAIN OppositeSide(Book, submitted).order_dict = {}
          /\ submitted.price \in DOMAIN own.order_dict
          /\ Last(own.order_dict[submitted.price]) =
                [submitted EXCEPT !.quantity = residual]

\* C8 -- A MARKET order without a price that still has residual quantity when
\* the opposite side is or becomes empty fails with the no-liquidity error
\* (ValueError), for that order only: the trades it made stay in the clearing
\* house, the resting orders they consumed stay removed, and the order's own
\* side is unchanged.  On the empty book it raises, leaves the book empty and
\* records no trade.
MarketNoLiquidity ==
    (/\ Returned
     /\ submitted.order_type = "MARKET" /\ submitted.price = None
     /\ submitted.quantity > 0
     /\ PrePositive
     /\ None \notin DOMAIN OppositeSide(pre, submitted).order_dict
     /\ TotalVolume(OppositeSide(pre, submitted).order_dict) < submitted.quantity)
    => /\ outcome = "ValueError"
       /\ OwnSide(Book, submitted) = OwnSide(pre, submitted)
       /\ DOMAIN OppositeSide(Book, submitted).order_dict = {}
       /\ Len(clearing_orders) >= Len(pre.clearing_orders)
       /\ SubSeq(clearing_orders, 1, Len(pre.clearing_orders)) = pre.clearing_orders
       /\ Len(Fills) = CountOrders(OppositeSide(pre, submitted).order_dict)

\* C9 -- A LIMIT order without a price is rejected in every book state, and
\* after the rejection both side books and the clearing house are as before.
LimitWithoutPriceRejected ==
    (/\ Returned
     /\ submitted.order_type = "LIMIT" /\ submitted.price = None
     /\ submitted.quantity > 0)
    => Raised /\ Book = pre

\* C10 -- An order whose quantity is zero or negative is rejected and leaves
\* both side books and the clearing house unchanged; no order with quantity
\* <= 0 is ever inserted into a price level.
NonPositiveQuantityRejected ==
    /\ (Returned /\ submitted.quantity <= 0) => Raised /\ Book = pre
    /\ RestingPositive(bid_heap) /\ RestingPositive(ask_heap)

\* C11 -- Every trade in the clearing house's list has price > 0 and
\* quantity > 0, for orders that send_order accepted (stated here for the
\* trades of a send_order that returned normally).
FillsPositive ==
    outcome = "ok" =>
        \A i \in 1..Len(Fills) : Fills[i].price > 0 /\ Fills[i].quantity > 0

\* The counter side of a match step of incoming order o, before and after.
CounterBefore(o) == IF o.side = "SELL" THEN bid_heap.order_dict ELSE ask_heap.order_dict
CounterAfter(o) == IF o.side = "SELL" THEN bid_heap'.order_dict ELSE ask_heap'.order_dict
CounterBest(o) ==
    IF o.side = "SELL" THEN Max(DOMAIN bid_heap.order_dict)
    ELSE Min(DOMAIN ask_heap.order_dict \ {None})

\* C12 -- At every match step between the incoming order o and the best
\* counter order c the matched quantity is min(o.quantity, c.quantity); o's
\* residual and c's quantity both decrease by exactly that amount; c is removed
\* from the book exactly when c.quantity <= o.quantity before the step, and
\* otherwise stays at the head of its queue with the reduced quantity.
MatchConservation ==
    [][FillStep =>
        LET o == Incoming
            d == CounterBefore(o)
            d2 == CounterAfter(o)
            best == CounterBest(o)
            c == d[best][1]
            m == NewFill.quantity
        IN /\ m = Min({o.quantity, c.quantity})
           /\ order'.quantity = o.quantity - m
           /\ IF c.quantity <= o.quantity
              THEN \/ best \notin DOMAIN d2 /\ Len(d[best]) = 1
                   \/ best \in DOMAIN d2 /\ Len(d[best]) > 1 /\ d2[best] = Tail(d[best])
              ELSE /\ best \in DOMAIN d2
                   /\ d2[best] = [d[best] EXCEPT ![1].quantity = c.quantity - m]
    ]_vars

\* What the reference price is to be for side books bh and ah: the midpoint
\* of the best bid and the best ask, the one best price when only one side
\* holds orders, and no value when neither does.
ReferencePriceIs(r, bh, ah) ==
    LET bids == DOMAIN bh.order_dict
        asks == DOMAIN ah.order_dict
    IN IF bids # {} /\ asks # {}
       THEN r.exc = NoExc /\ 2 * r.val = 100 * Max(bids) + 100 * Min(asks)
       ELSE IF bids # {} THEN r.exc = NoExc /\ r.val = 100 * Max(bids)
       ELSE IF asks # {} THEN r.exc = NoExc /\ r.val = 100 * Min(asks)
       ELSE r.exc # NoExc

\* C13 -- reference_price is (best_bid + best_ask)/2 when both sides hold
\* orders, the single best price when exactly one side does, and produces no
\* value when both are empty (stated after a send_order that returned, for
\* books whose resting orders all have a price and a positive quantity and
\* whose best bid was below the best ask before that call).
ReferencePrice ==
    (/\ Idle
     /\ None \notin DOMAIN ask_heap.order_dict
     /\ outcome = "ok" /\ PrePositive
     /\ RestingPositive(bid_heap) /\ RestingPositive(ask_heap)
     /\ \A b \in DOMAIN pre.bid_heap.order_dict,
           a \in DOMAIN pre.ask_heap.order_dict : b < a)
    => /\ ReferencePriceIs(get_reference_price(bid_heap, ask_heap), bid_heap, ask_heap)
       /\ ReferencePriceIs(Database_get_reference_price(bid_heap, ask_heap),
                           bid_heap, ask_heap)

\* C16 -- After every trade, last_trade is (price, quantity) of the most
\* recent trade; it is (None, None) only while no trade has been made (the
\* first part stated after a send_order that traded and returned, on a book
\* whose resting orders had a price and a positive quantity).
LastTradeIsLatestFill ==
    /\ (outcome = "ok" /\ PreSound /\ PrePositive /\ Len(Fills) > 0)
       => last_trade = <<Last(clearing_orders).price, Last(clearing_orders).quantity>>
    /\ last_trade = <<None, None>> => (outcome = "ok" => clearing_orders = <<>>)

\* The trades of a list whose buyer and seller differ, in the list's order.
RECURSIVE NotSelfTrades(_)
NotSelfTrades(co) ==
    IF co = <<>> THEN <<>>
    ELSE IF Head(co).buyside_account_id = Head(co).sellside_account_id
    THEN NotSelfTrades(Tail(co))
    ELSE <<Head(co)>> \o NotSelfTrades(Tail(co))

\* A step of the matching loop that takes quantity from (or removes) the best
\* counter order of the incoming order.
MatchStep ==
    /\ ~cleanup'.done
    /\ CounterAfter(Incoming) # CounterBefore(Incoming)

\* C17 -- A match between two orders of the same account still appends its
\* trade to the clearing house; clear_orders goes through the list in append
\* order, reports exactly the trades whose buyer differs from the seller,
\* skips the self-trades, and leaves the list empty.
SelfTradesKeptThenSkipped ==
    [][/\ MatchStep =>
            LET c == CounterBefore(Incoming)[CounterBest(Incoming)][1] IN
            /\ FillStep
            /\ c.account_id = Incoming.account_id =>
                   /\ NewFill.buyside_account_id = c.account_id
                   /\ NewFill.sellside_account_id = c.account_id
       /\ (cleanup'.done /\ ~cleanup.done) =>
            /\ cleanup'.exc = NoExc
            /\ cleanup'.printed = NotSelfTrades(clearing_orders)
            /\ clearing_orders' = <<>>
    ]_vars

\* clear_orders was given a self-trade followed by a trade between two
\* accounts and has printed only the second.
SelfTradesKeptThenSkippedWitness ==
    /\ cleanup.done
    /\ Len(cleanup.given) = 2
    /\ cleanup.given[1].buyside_account_id = cleanup.given[1].sellside_account_id
    /\ cleanup.given[2].buyside_account_id # cleanup.given[2].sellside_account_id
    /\ cleanup.printed = <<cleanup.given[2]>>
    /\ clearing_orders = <<>>

\* The keys Order.model_validate_json reads.
OrderFields == {"account_id", "side", "quantity", "order_type", "price",
                "timestamp"}

\* C14: every order the engine accepts (send_order returned to the router)
\* causes exactly one snapshot to be put on the snapshot queue: whenever the
\* router is back at recv_json, as many snapshots have been put as orders were
\* accepted.  (Nothing takes snapshots off the queue in SpecRouter.)
SnapshotPerAcceptedOrder ==
    AtRecv => Len(market_snapshot_queue) = router.accepted

\* A malformed envelope: it has no message_type, or it is an ORDER whose data
\* lacks a required field or names an unknown side or order type.
Malformed(m) ==
    \/ "message_type" \notin DOMAIN m
    \/ /\ m.message_type = "ORDER"
       /\ \/ ~(OrderFields \subseteq DOMAIN m.data)
          \/ m.data.side \notin OrderSide
          \/ m.data.order_type \notin OrderType

\* C18: a malformed envelope is dropped: the step of the router that receives
\* it leaves the book unchanged and leaves the router running, no exception
\* having ended run.
MalformedEnvelopeDropped ==
    [][(router'.others = router.others + 1 /\ Malformed(router'.message))
       => (Book' = Book /\ router'.exc = NoExc /\ router'.running)]_vars

\* The largest capacity considered for the snapshot queue: one less than the
\* calls of Database.snapshot.
MaxCapacity == MaxSnapshots - 1

Sent(s) == \E j \in 1..Len(data_router.sent) : data_router.sent[j] = s

ShutdownOrdering ==
    /\ main.market_maker_task # "running"
          => \A a \in Agents : main.agent_tasks[a] = "done"
    /\ \A a \in Agents : agents[a].closed => agents[a].pc = "done"
    /\ orchestrator.terminated => \A a \in Agents : agents[a].pc = "done"
    /\ router.closed => (router.exited \/ router.exc # NoExc)
    /\ main.context_terminated
          => /\ main.market_maker_task = "done"
             /\ \A a \in Agents : main.agent_tasks[a] = "done"

CodecRoundTrip ==
    /\ codec.phase \in {"payload", "decoded"} =>
          /\ codec.payload.side \in OrderSide
          /\ codec.payload.order_type \in OrderType
          /\ (codec.order.timestamp = None) = (codec.payload.timestamp = None)
    /\ codec.phase = "decoded" =>
          /\ codec.decoded.exc = NoExc
          /\ Stamped(codec.decoded.order, codec.decoded.timestamp) = codec.order

\* An order with a timestamp that is not its own ISO string and without a
\* price has been encoded and decoded.
CodecRoundTripWitness ==
    /\ codec.phase = "decoded"
    /\ codec.order.timestamp # None
    /\ isoformat(codec.order.timestamp) # codec.order.timestamp
    /\ codec.order.price = None
    /\ codec.order.order_type = "MARKET"
    /\ codec.decoded.exc = NoExc

\* The seed book of order_book.py, and the books the scenarios leave.
SeedBook == populate_for_testing(CounterIds)
AfterScenario1 == send_orders(<<SellMarket350>>, SeedBook)
AfterScenario2 == send_orders(<<BuyMarket150>>, AfterScenario1)

\* C23: on the seed book, a SELL MARKET of 350 by account 98 returns having
\* emitted exactly the fills (11, 98, 99.90, 100), (12, 98, 99.90, 100),
\* (13, 98, 99.80, 100), (14, 98, 99.80, 50), in that order, and the best
\* bid is then 99.80 with 50 left on its head order.
Scenario1 ==
    (Idle /\ submitted = SellMarket350 /\ pre = SeedBook) =>
        /\ outcome = "ok"
        /\ Fills = <<ClearingOrder(11, 98, 9990, 100),
                        ClearingOrder(12, 98, 9990, 100),
                        ClearingOrder(13, 98, 9980, 100),
                        ClearingOrder(14, 98, 9980, 50)>>
        /\ peek_top_bid(bid_heap).val.price = 9980
        /\ peek_top_bid(bid_heap).val.quantity = 50

\* C24: right after scenario 1, a BUY MARKET of 150 by account 99 returns
\* having emitted exactly the fills (99, 1, 100.10, 100), (99, 2, 100.10, 50),
\* in that order, and the best ask is then 100.10 with 50 left on its head
\* order.
Scenario2 ==
    (Idle /\ submitted = BuyMarket150 /\ pre = AfterScenario1) =>
        /\ outcome = "ok"
        /\ Fills = <<ClearingOrder(99, 1, 10010, 100),
                        ClearingOrder(99, 2, 10010, 50)>>
        /\ peek_bottom_ask(ask_heap).val.price = 10010
        /\ peek_bottom_ask(ask_heap).val.quantity = 50

\* C25: after scenarios 1 and 2, a BUY LIMIT of 300 at 100.20 crosses and
\* emits, in order, 50 at 100.10 against seller 2, 100 at 100.20 against
\* seller 3 and 100 at 100.20 against seller 4; the residual 50 then rests
\* as a bid at 100.20 and no ask at or below 100.20 is left.
Scenario3 ==
    (Idle /\ submitted = BuyLimit300 /\ pre = AfterScenario2) =>
        /\ outcome = "ok"
        /\ Fills = <<ClearingOrder(99, 2, 10010, 50),
                        ClearingOrder(99, 3, 10020, 100),
                        ClearingOrder(99, 4, 10020, 100)>>
        /\ 10020 \in DOMAIN bid_heap.order_dict
        /\ bid_heap.order_dict[10020] = <<[BuyLimit300 EXCEPT !.quantity = 50]>>
        /\ \A p \in DOMAIN ask_heap.order_dict : p > 10020

\* C26: on the seed book, a SELL LIMIT of 100 at 101.00 does not cross: it
\* is the one order of a new ask level at 101.00, nothing else in the book
\* changes, no fill is emitted, and the reference price is what it was
\* before, the midpoint of 100.10 and 99.90.
Scenario4 ==
    (/\ Idle /\ submitted = SellLimit101
     /\ pre \in {SeedBook, populate_for_testing(UuidIds)}) =>
        /\ outcome = "ok"
        /\ Fills = <<>>
        /\ 10100 \notin DOMAIN pre.ask_heap.order_dict
        /\ DOMAIN ask_heap.order_dict = DOMAIN pre.ask_heap.order_dict \cup {10100}
        /\ ask_heap.order_dict[10100] = <<SellLimit101>>
        /\ \A p \in DOMAIN pre.ask_heap.order_dict :
              ask_heap.order_dict[p] = pre.ask_heap.order_dict[p]
        /\ bid_heap = pre.bid_heap
        /\ get_reference_price(bid_heap, ask_heap)
             = get_reference_price(pre.bid_heap, pre.ask_heap)
        /\ get_reference_price(bid_heap, ask_heap)
             = [exc |-> NoExc, val |-> (100 * 10010 + 100 * 9990) \div 2]

\* The SELL LIMIT at 101.00 has returned on the seed book of order_service.
Scenario4Witness ==
    /\ Idle /\ submitted = SellLimit101
    /\ pre = populate_for_testing(UuidIds)
    /\ outcome = "ok"
    /\ Len(ask_heap.price_heap) = 6

\* An order without its quantity, which the matching reduces.
Key(o) == [o EXCEPT !.quantity = 0]
Keys(queue) == [i \in 1..Len(queue) |-> Key(queue[i])]

\* s is t with some of its elements left out.
RECURSIVE IsSubSeq(_, _)
IsSubSeq(s, t) ==
    IF Len(s) = 0 THEN TRUE
    ELSE IF Len(t) = 0 THEN FALSE
    ELSE IF Head(s) = Head(t) THEN IsSubSeq(Tail(s), Tail(t))
    ELSE IsSubSeq(s, Tail(t))

IsPrefix(s, t) == Len(s) <= Len(t) /\ s = SubSeq(t, 1, Len(s))

\* The orders of agent a among those the router received, oldest first.
ReceivedFrom(a) == SelectSeq(received, LAMBDA o : o.account_id = agent_id(a))

\* The queue of price level p of a side book; empty when there is no level.
Level(h, p) == IF p \in DOMAIN h.order_dict THEN h.order_dict[p] ELSE <<>>

\* Every price level keeps its orders in the order the router received them.
QueuedInReceiptOrder(h) ==
    \A p \in DOMAIN h.order_dict : IsSubSeq(Keys(h.order_dict[p]), Keys(received))

\* Between two states, a level loses an order only at its head and gains one
\* only at its tail.
HeadOutTailIn(h, hnext) ==
    \A p \in DOMAIN h.order_dict :
        \/ IsPrefix(Keys(Level(h, p)), Keys(Level(hnext, p)))
        \/ Keys(Level(hnext, p)) = Tail(Keys(Level(h, p)))

\* C27: whatever the agents' timestamps, the orders resting at one price of
\* one side are queued in the order in which the router received them, and
\* leave the queue from its head (so they are filled in that order); and the
\* orders of one agent are received in the order in which it sent them.
ArrivalIsReceiptOrder ==
    [][/\ \A a \in Agents : IsPrefix(ReceivedFrom(a), sent[a])'
       /\ QueuedInReceiptOrder(bid_heap)' /\ QueuedInReceiptOrder(ask_heap)'
       /\ HeadOutTailIn(bid_heap, bid_heap')
       /\ HeadOutTailIn(ask_heap, ask_heap')]_vars

\* Two orders of different agents rest at one bid price, the one received
\* first bearing the later timestamp; and two orders of one agent have been
\* received.
ArrivalIsReceiptOrderWitness ==
    /\ Idle /\ Len(received) = 3
    /\ \E p \in DOMAIN bid_heap.order_dict :
          LET queue == bid_heap.order_dict[p] IN
          /\ Len(queue) = 2
          /\ queue[1].account_id # queue[2].account_id
          /\ queue[1].timestamp > queue[2].timestamp
          /\ Key(queue[1]) = Key(received[1])
          /\ Key(queue[2]) = Key(received[2])
    /\ received[3].account_id = received[1].account_id

\* C28: in every interleaving of the four workers, a step that changes a
\* side book or the clearing house's list is a step of the OrderRouter's
\* thread; a step of the DataRouter leaves them alone and at most removes
\* the oldest snapshot from the queue; a step of an agent leaves them and
\* the queue alone and at most adds a message to the agent's own pipe; and a
\* step of the orchestrator leaves books, queue and pipes alone.
SingleWriter ==
    [][/\ <<bid_heap, ask_heap, clearing_orders>>'
             # <<bid_heap, ask_heap, clearing_orders>> => RouterStep
       /\ DataRouterStep =>
             /\ UNCHANGED <<bid_heap, ask_heap, clearing_orders, pipes>>
             /\ \/ market_snapshot_queue' = market_snapshot_queue
                \/ /\ market_snapshot_queue # <<>>
                   /\ market_snapshot_queue' = Tail(market_snapshot_queue)
       /\ AgentStep =>
             /\ UNCHANGED <<bid_heap, ask_heap, clearing_orders,
                            market_snapshot_queue>>
             /\ \A a \in Agents : IsPrefix(pipes[a], pipes'[a])
       /\ OrchestratorStep =>
             UNCHANGED <<bid_heap, ask_heap, clearing_orders,
                         market_snapshot_queue, pipes>>]_vars

\* The router has matched orders of both agents, the DataRouter has sent a
\* snapshot, and the orchestrator has stopped the agents.
SingleWriterWitness ==
    /\ Len(clearing_orders) > 0
    /\ \A a \in Agents : Len(sent[a]) > 0
    /\ Len(data_router.sent) > 0
    /\ orchestrator.pc = "done"

\* C29: a MARKET order without a price whose quantity is the total quantity
\* resting on the opposite side returns without an exception, the quantities
\* of its fills add up to its quantity, and the opposite side is left empty.
MarketTakesAll ==
    (/\ Returned
     /\ submitted.order_type = "MARKET" /\ submitted.price = None
     /\ submitted.quantity = TotalVolume(OppositeSide(pre, submitted).order_dict)) =>
        /\ outcome = "ok"
        /\ SumQty(Fills) = submitted.quantity
        /\ OppositeSide(Book, submitted) = EmptyHeap

\* A pass through the loop of handle_market_order: its first pass for a
\* MARKET order entering send_order, or a pass of the running handler.
MarketPass ==
    \/ Idle /\ n_sent' = n_sent + 1 /\ submitted'.order_type = "MARKET"
    \/ ~Idle /\ Top = "handle_market_order"

\* The best counter order of o, and whether its price is outside o's price.
Counter(o) ==
    IF o.side = "SELL" THEN peek_top_bid(bid_heap) ELSE peek_bottom_ask(ask_heap)
Outside(o, c) ==
    IF o.side = "SELL" THEN o.price > c.price ELSE o.price < c.price

\* The pass finds a priced order with quantity left facing a best counter
\* order whose price is outside the order's price.
ProtectiveStop ==
    /\ MarketPass
    /\ Incoming.quantity > 0 /\ Incoming.price # None
    /\ Counter(Incoming).exc = NoExc
    /\ Counter(Incoming).val # NoOrder
    /\ Counter(Incoming).val.price # None
    /\ Outside(Incoming, Counter(Incoming).val)

\* handle_limit_order is running on the residual the matching loop left.
RestingResidual == ~Idle /\ Top = "handle_limit_order" /\ Len(stack) >= 2

\* C30: when a priced order with quantity left meets a best counter order
\* whose price is outside its own (BUY: price < counter price; SELL: price >
\* counter price), the pass makes no fill and touches no side book, and hands
\* the order to handle_limit_order; that call makes no fill either, returns
\* normally, and leaves the whole residual as the last order of the level at
\* the order's price on its own side.  This is so for a LIMIT order that
\* crossed and for a MARKET order with a price.
ProtectivePrice ==
    [][/\ ProtectiveStop =>
             /\ UNCHANGED <<bid_heap, ask_heap, clearing_orders>>
             /\ order' = Incoming
             /\ stack' # <<>> /\ stack'[Len(stack')] = "handle_limit_order"
       /\ RestingResidual =>
             LET own == IF order.side = "BUY" THEN bid_heap ELSE ask_heap
                 own2 == IF order.side = "BUY" THEN bid_heap' ELSE ask_heap'
             IN /\ outcome' = "ok" /\ stack' = <<>>
                /\ clearing_orders' = clearing_orders
                /\ IF order.side = "BUY" THEN ask_heap' = ask_heap
                   ELSE bid_heap' = bid_heap
                /\ DOMAIN own2.order_dict = DOMAIN own.order_dict \cup {order.price}
                /\ own2.order_dict[order.price]
                     = Append(Level(own, order.price), order)
                /\ \A p \in DOMAIN own.order_dict \ {order.price} :
                      own2.order_dict[p] = own.order_dict[p]
      ]_vars

\* C31: when recv_json fails with a transport error and the router is still
\* running, run goes on with its loop: the thread does not end, no exception
\* leaves run, and the book is as it was.
RecvErrorContinues ==
    [][(LoopExcept /\ router.running) =>
           /\ ~router'.exited
           /\ router'.exc = NoExc
           /\ router'.pc \in {"while", "recv"}
           /\ UNCHANGED <<bid_heap, ask_heap, clearing_orders>>]_vars

\* C32: once stop() has cleared _running, the thread of run ends, whether or
\* not another message arrives.
StopEndsRun == (~router.running) ~> router.exited

\* C38: no received message is passed to send_order twice, and a message
\* that recv_json returned after _running was cleared is not passed to
\* send_order at all.
SubmittedAtMostOnce ==
    /\ \A i, j \in DOMAIN router.submissions :
          i # j => router.submissions[i] # router.submissions[j]
    /\ \A i \in DOMAIN router.submissions :
          router.receipts[router.submissions[i]]

\* recv_json has failed after _running was cleared, and run is at the test
\* of _running with the ORDER message it passed to send_order before.
SubmittedAtMostOnceWitness ==
    /\ LoopAt("running")
    /\ ~router.running
    /\ \E i \in DOMAIN router.submissions : router.submissions[i] = router.held

\* The snapshots Database.snapshot has put on the queue so far, oldest
\* first (in SpecData nothing changes the book or last_trade, so that every
\* call of get_snapshot ends the same way).
Enqueued ==
    IF get_snapshot(bid_heap, ask_heap, last_trade, 0).exc # NoExc THEN <<>>
    ELSE [i \in 1..now |->
             get_snapshot(bid_heap, ask_heap, last_trade, i - 1).val]

\* C33: what DataRouter has published is a prefix of what was enqueued, in
\* the same order and each snapshot once (the rest still waits on the
\* queue); every published envelope has message_type DATA_SNAPSHOT and the
\* dump of its snapshot as data; and a get that finds the queue empty
\* publishes nothing.
PublishedInOrder ==
    /\ [](/\ data_router.sent \o market_snapshot_queue = Enqueued
          /\ \A i \in DOMAIN Published :
                /\ Published[i].message_type = "DATA_SNAPSHOT"
                /\ Published[i].data = Snapshot_model_dump(Enqueued[i]))
    /\ [][(data_router.pc = "get" /\ market_snapshot_queue = <<>>)
             => data_router'.sent = data_router.sent]_vars

\* Two snapshots were published while a third waits on the queue.
PublishedInOrderWitness ==
    /\ Len(Published) = 2
    /\ Len(market_snapshot_queue) = 1
    /\ Published[1].data.timestamp # Published[2].data.timestamp

\* The snapshots taken so far, oldest first: those DataRouter has sent, as it
\* sent them, and those still on the queue.
Snapshots == data_router.sent \o market_snapshot_queue

NestingShapes ==
    {<<>>, <<"handle_limit_order">>, <<"handle_market_order">>,
     <<"handle_limit_order", "handle_market_order">>,
     <<"handle_market_order", "handle_limit_order">>,
     <<"handle_limit_order", "handle_market_order", "handle_limit_order">>}

\* A pass through the loop of handle_market_order after which the loop goes
\* on: the step is the first pass of a MARKET order just passed to
\* send_order or a pass of the running handle_market_order, and
\* handle_market_order is still the innermost handler after it.
LoopPass ==
    /\ IF Idle THEN submitted'.order_type = "MARKET" /\ stack' = <<"handle_market_order">>
       ELSE Top = "handle_market_order" /\ stack' = stack
    /\ n_sent' = n_sent + (IF Idle THEN 1 ELSE 0)

\* C35: send_order ends: a pass through the matching loop that does not end
\* the call leaves the incoming order without quantity or takes one resting
\* order out of the counter side; the handlers never nest deeper than
\* handle_limit_order -> handle_market_order -> handle_limit_order; and the
\* inner handle_limit_order rests the order on its own side and returns,
\* without entering the matching again.
SubmitTerminates ==
    [][/\ stack' \in NestingShapes
       /\ LoopPass =>
             \/ order'.quantity = 0
             \/ CountOrders(CounterAfter(Incoming))
                  = CountOrders(CounterBefore(Incoming)) - 1
       /\ RestingResidual =>
             LET own == IF order.side = "BUY" THEN bid_heap ELSE ask_heap
                 own2 == IF order.side = "BUY" THEN bid_heap' ELSE ask_heap'
             IN /\ stack' = <<>>
                /\ outcome' = "ok"
                /\ order.price \in DOMAIN own2.order_dict
                /\ own2.order_dict[order.price]
                     = Append(Level(own, order.price), order)
      ]_vars

\* The prices at which orders rest on a side, and the price peek_top_bid and
\* peek_bottom_ask find at the root of the side's heap.
RestingPrices(h) == {p \in DOMAIN h.order_dict : h.order_dict[p] # <<>>}
RootBid == 0 - bid_heap.price_heap[1]
RootAsk == ask_heap.price_heap[1]

\* C36: from the empty book and with priced orders only, no bid rests at a
\* price strictly above the price of a resting ask, at any time; and when
\* send_order has ended and both sides hold orders, the best bid is at most
\* the best ask.
Uncrossed ==
    /\ \A b \in RestingPrices(bid_heap), a \in RestingPrices(ask_heap) : b <= a
    /\ (Idle /\ bid_heap.price_heap # <<>> /\ ask_heap.price_heap # <<>>)
          => RootBid <= RootAsk

\* A third order was matched against a resting one, and orders rest on both
\* sides, the best of them at different prices.
UncrossedWitness ==
    /\ Idle /\ n_sent = MaxOrders /\ outcome = "ok"
    /\ Len(clearing_orders) > 0
    /\ RestingPrices(bid_heap) # {} /\ RestingPrices(ask_heap) # {}
    /\ RootBid < RootAsk

\* C37: when every send_order so far, each with a positive quantity, has
\* returned without an exception, the quantities the orders were submitted
\* with add up to the quantity resting on the two sides plus twice the
\* quantity of all fills.
ShareConservation ==
    (Idle /\ outcome \in {"none", "ok"}) =>
        SumQty(received)
          = TotalVolume(bid_heap.order_dict) + TotalVolume(ask_heap.order_dict)
              + 2 * SumQty(clearing_orders)

\* Three orders were submitted; there was a fill, and an order that was
\* filled in part rests with what is left of it.
ShareConservationWitness ==
    /\ Idle /\ outcome = "ok" /\ Len(received) = MaxOrders
    /\ Len(clearing_orders) > 0
    /\ \E i \in DOMAIN received :
          \E o \in RestingObjects(bid_heap) \cup RestingObjects(ask_heap) :
              /\ o.account_id = received[i].account_id
              /\ o.side = received[i].side
              /\ o.price = received[i].price
              /\ 0 < o.quantity /\ o.quantity < received[i].quantity

\* stop() has returned.
StopReturned == orchestrator.pc = "done"

NoSendAfterClose ==
    /\ [][\A a \in Agents :
             ~(agents[a].pc = "send" /\ agents[a].closed
               /\ agents'[a].pc # "send")]_vars
    /\ \A a \in Agents : (~agents[a].running) ~> (agents[a].pc = "done")

====
